---- MODULE Spec2Model ----
(***************************************************************************)
(* Model of the Map-Editor repository: the decode worker and its FIFO      *)
(* manager (src/workers), the loader component (components/PGMMapLoader)   *)
(* and the rotation-aware crop (components/CropTool).                      *)
(***************************************************************************)
EXTENDS Integers, Sequences, FiniteSets, TLC

(***************************************************************************)
(* Bounds                                                                  *)
(***************************************************************************)
\* number of promises PGMWorkerManager.process() may create in one run
MaxRequests == 3
\* number of processData() invocations of the loader in one run
MaxLoads == 2
\* largest width and height, in pixels, of the images handed to the crop
MaxDim == 2
\* the crop rectangle's corners range over -MaxCoord..MaxCoord half units
MaxCoord == 2
\* number of entries the editor's undo stack may hold in one run
MaxUndo == 2
\* the quick-rotate buttons are followed up to this angle, in degrees
MaxAngle == 180
MaxTurn == 360
MaxTimers == 3

(***************************************************************************)
(* Arithmetic helpers of the JavaScript runtime                            *)
(***************************************************************************)
\* Math.round(n/d) for d > 0: nearest integer, halves towards +infinity
MathRound(n, d) == (2 * n + d) \div (2 * d)

\* Storing n/d (d > 0) into a Uint8ClampedArray: clamp to [0,255], round to
\* the nearest integer, halves to the even neighbour
ClampedStore(n, d) ==
  IF n <= 0 THEN 0
  ELSE IF n >= 255 * d THEN 255
  ELSE LET f == n \div d
           r == n - f * d
       IN IF 2 * r < d THEN f
          ELSE IF 2 * r > d THEN f + 1
          ELSE IF f % 2 = 0 THEN f ELSE f + 1

\* Sentinel for the JavaScript value `undefined` read from a typed array
\* past its end
Undefined == -1000

\* rawData[i] on a typed array, i counted from 0
At(rawData, i) ==
  IF i >= 0 /\ i < Len(rawData) THEN rawData[i + 1] ELSE Undefined

\* new Int8Array(values): every value wraps to a signed byte
ToInt8(v) == ((v + 128) % 256) - 128

Int8Array(values) == [i \in 1..Len(values) |-> ToInt8(values[i])]

(***************************************************************************)
(* PGMWorker.ts : self.onmessage                                           *)
(***************************************************************************)
\* the response posted when there is no mapData and in the catch block
FallbackResponse == [data |-> <<>>, width |-> 10, height |-> 10]

RosPixel_truncates(occ) ==
  IF occ = Undefined THEN 0
  ELSE IF occ = -1 THEN 235
  ELSE IF occ = 0 THEN 255
  ELSE IF occ = 100 THEN 0
  ELSE ClampedStore(255 - ((occ * 255) \div 100), 1)

\* rosMap branch: gray value of one occupancy sample
RosPixel(occ) ==
  IF occ = Undefined THEN 0
  ELSE IF occ = -1 THEN 235
  ELSE IF occ = 0 THEN 255
  ELSE IF occ = 100 THEN 0
  ELSE ClampedStore(255 - MathRound(occ * 255, 100), 1)

CostmapColor_truncates(v) ==
  IF v = Undefined THEN <<0, 0, 0, 255>>
  ELSE IF v = 0 THEN <<0, 0, 0, 0>>
  ELSE IF v >= 1 /\ v <= 98
    THEN <<(255 * v) \div 100, 0, 255 - ((255 * v) \div 100), 255>>
  ELSE IF v = 99 THEN <<0, 255, 255, 255>>
  ELSE IF v = 100 THEN <<255, 0, 255, 255>>
  ELSE IF v < 0 THEN <<112, 137, 134, 15>>
  ELSE <<0, 0, 0, 255>>

\* liveCostmap branch: the four stored channels of one sample
CostmapColor(v) ==
  IF v = Undefined THEN <<0, 0, 0, 255>>
  ELSE IF v = 0 THEN <<0, 0, 0, 0>>
  ELSE IF v >= 1 /\ v <= 98
    THEN <<ClampedStore(255 * v, 100), 0, ClampedStore(25500 - 255 * v, 100), 255>>
  ELSE IF v = 99 THEN <<0, 255, 255, 255>>
  ELSE IF v = 100 THEN <<255, 0, 255, 255>>
  ELSE IF v < 0 THEN <<112, 137, 134, 15>>
  ELSE <<0, 0, 0, 255>>

GrayAt_sameRow(rawData, width, height, x, y) ==
  LET g == At(rawData, y * width + x)
  IN IF g = Undefined THEN 0 ELSE ClampedStore(g, 1)

\* grayscale branch: the gray value stored for destination pixel (x,y)
GrayAt(rawData, width, height, x, y) ==
  LET g == At(rawData, (height - 1 - y) * width + x)
  IN IF g = Undefined THEN 0 ELSE ClampedStore(g, 1)

\* channel c (0..3) of output pixel p (0-based) of the rosMap loop
RosChannel(rawData, p, c) ==
  IF c = 3 THEN 255 ELSE RosPixel(At(rawData, p))

\* channel c (0..3) of output pixel p (0-based) of the grayscale loop
GrayChannel(rawData, width, height, p, c) ==
  IF c = 3 THEN 255
  ELSE GrayAt(rawData, width, height, p % width, p \div width)

\* processedData after the branch selected by sourceType has run; bytes the
\* loops never write keep the 0 the allocation gave them
ProcessedData(sourceType, rawData, width, height) ==
  LET n == width * height
      rows == IF height > 0 /\ width > 0 THEN n ELSE 0
  IN [k \in 1..(n * 4) |->
        LET p == (k - 1) \div 4
            c == (k - 1) % 4
        IN IF sourceType = "rosMap" THEN RosChannel(rawData, p, c)
           ELSE IF sourceType = "liveCostmap" THEN CostmapColor(At(rawData, p))[c + 1]
           ELSE IF p < rows THEN GrayChannel(rawData, width, height, p, c)
           ELSE 0]

\* self.onmessage: the one response posted for a request message
onmessage(msg) ==
  IF ~msg.hasMapData THEN FallbackResponse
  ELSE IF ~msg.hasInfo THEN FallbackResponse        \* TypeError, caught
  ELSE IF msg.width * msg.height * 4 < 0 THEN FallbackResponse  \* RangeError, caught
  ELSE [data |-> ProcessedData(msg.sourceType, msg.data, msg.width, msg.height),
        width |-> msg.width, height |-> msg.height]

(***************************************************************************)
(* IEEE-754 double arithmetic of the crop's coordinate computation         *)
(*                                                                         *)
(* World coordinates are multiples of 1/4 of small magnitude and are kept  *)
(* exactly, in quarter units.  Math.cos and Math.sin of a multiple of 90   *)
(* degrees are 0, 1 or -1 plus a residue of about 1e-16, kept in units of  *)
(* 2^-72.  A double of the computation is its exact quarter part plus a    *)
(* deviation in these units.                                               *)
(***************************************************************************)
Min(a, b) == IF a <= b THEN a ELSE b
Max(a, b) == IF a >= b THEN a ELSE b
Abs(a) == IF a >= 0 THEN a ELSE -a
Sign(a) == IF a > 0 THEN 1 ELSE IF a < 0 THEN -1 ELSE 0

\* Math.cos(Math.PI / 2) = 6.123233995736766e-17, divided by 4, in units of 2^-72
CosHalfPi == 72290

\* the rotations of the model, in degrees: the multiples of 90 the rotation
\* controls reach (slider -180..180, quick-rotate +90 on top)
Rotations == {-90, 0, 90, 180, 270}

\* Math.cos(degToRad(deg)): v is the exact part, e the residue in multiples
\* of Math.cos(Math.PI / 2)
Cos(deg) ==
  CASE deg = 0 -> [v |-> 1, e |-> 0]
    [] deg = 90 -> [v |-> 0, e |-> 1]
    [] deg = 180 -> [v |-> -1, e |-> 0]
    [] deg = 270 -> [v |-> 0, e |-> -3]
    [] deg = -90 -> [v |-> 0, e |-> 1]

\* Math.sin(degToRad(deg))
Sin(deg) ==
  CASE deg = 0 -> [v |-> 0, e |-> 0]
    [] deg = 90 -> [v |-> 1, e |-> 0]
    [] deg = 180 -> [v |-> 0, e |-> 2]
    [] deg = 270 -> [v |-> -1, e |-> 0]
    [] deg = -90 -> [v |-> -1, e |-> 0]

\* largest power of two not above n (n >= 1)
RECURSIVE P2Floor(_)
P2Floor(n) == IF n < 2 THEN 1 ELSE 2 * P2Floor(n \div 2)

\* distance between neighbouring doubles at magnitude q/4 (q >= 1), in units
\* of 2^-72: 2^(e-52) for q/4 in [2^e, 2^(e+1))
Ulp(q) == 262144 * P2Floor(q)

\* x / s rounded to the nearest integer, ties to the even one (x >= 0, s > 0)
RoundTiesEven(x, s) ==
  LET f == x \div s
      r == x - f * s
  IN IF 2 * r < s THEN f
     ELSE IF 2 * r > s THEN f + 1
     ELSE IF f % 2 = 0 THEN f ELSE f + 1

\* the double nearest to q/4 + dev * 2^-72, as its deviation from q/4
FlAdd(q, dev) ==
  IF q = 0 \/ dev = 0 THEN dev
  ELSE LET away == (Sign(dev) = Sign(q))
           sp == IF away \/ P2Floor(Abs(q)) # Abs(q)
                   THEN Ulp(Abs(q)) ELSE Ulp(Abs(q)) \div 2
       IN Sign(dev) * RoundTiesEven(Abs(dev), sp) * sp

\* Math.round(x * num / den) for the double x = q/4 + dev * 2^-72 and a
\* positive scale num/den: halves go up, a value just below a half goes down
RoundScaled(q, dev, num, den) ==
  LET n == q * num
      d == 4 * den
      tie == (2 * n + d) % (2 * d) = 0
  IN IF tie /\ dev < 0 THEN MathRound(n, d) - 1 ELSE MathRound(n, d)

(***************************************************************************)
(* CropTool.tsx : parseColor and getCropRect                               *)
(***************************************************************************)
HexDigits ==
  [c \in {"0", "1", "2", "3", "4", "5", "6", "7", "8", "9",
          "a", "b", "c", "d", "e", "f"} |->
     CASE c = "0" -> 0 [] c = "1" -> 1 [] c = "2" -> 2 [] c = "3" -> 3
       [] c = "4" -> 4 [] c = "5" -> 5 [] c = "6" -> 6 [] c = "7" -> 7
       [] c = "8" -> 8 [] c = "9" -> 9 [] c = "a" -> 10 [] c = "b" -> 11
       [] c = "c" -> 12 [] c = "d" -> 13 [] c = "e" -> 14 [] c = "f" -> 15]

\* the sentinel for NaN
NaN == -1

\* Number.parseInt(a + b, 16) of a two-character string
ParseHex2(a, b) ==
  IF a \notin DOMAIN HexDigits THEN NaN
  ELSE IF b \notin DOMAIN HexDigits THEN HexDigits[a]
  ELSE 16 * HexDigits[a] + HexDigits[b]

\* parseColor(color): color is the string as a sequence of characters
parseColor(color) ==
  IF Len(color) > 0 /\ color[1] = "#" /\ Len(color) = 4
    THEN <<ParseHex2(color[2], color[2]), ParseHex2(color[3], color[3]),
           ParseHex2(color[4], color[4])>>
  ELSE IF Len(color) > 0 /\ color[1] = "#" /\ Len(color) = 7
    THEN <<ParseHex2(color[2], color[3]), ParseHex2(color[4], color[5]),
           ParseHex2(color[6], color[7])>>
  ELSE <<205, 205, 205>>

\* a byte of the background stored into the Uint8ClampedArray (NaN gives 0)
StoreByte(v) == IF v = NaN THEN 0 ELSE ClampedStore(v, 1)

\* lines 390-395: worldX (or worldY) of destination column x, in quarter
\* units, for a crop of cropWidth pixels between minX and maxX (half units)
WorldCoord_notCentred(minX, maxX, cropWidth, x) == 4 * x + (minX + maxX)

WorldCoord(minX, maxX, cropWidth, x) == 4 * x - 2 * cropWidth + (minX + maxX)

\* lines 356-358 and 403-404: rotatedWorldX and rotatedWorldY as doubles
\* (exact quarter part q, deviation d)
Rotated_inverseAngle(worldX, worldY, deg) ==
  LET cosTheta == Cos(deg)
      sinTheta == [v |-> -Sin(deg).v, e |-> -Sin(deg).e]
      xq == worldX * cosTheta.v + worldY * sinTheta.v
      yq == (-worldX) * sinTheta.v + worldY * cosTheta.v
  IN [xq |-> xq,
      xd |-> FlAdd(xq, (worldX * cosTheta.e + worldY * sinTheta.e) * CosHalfPi),
      yq |-> yq,
      yd |-> FlAdd(yq, ((-worldX) * sinTheta.e + worldY * cosTheta.e) * CosHalfPi)]

Rotated(worldX, worldY, deg) ==
  LET cosTheta == Cos(deg)
      sinTheta == Sin(deg)
      xq == worldX * cosTheta.v + worldY * sinTheta.v
      yq == (-worldX) * sinTheta.v + worldY * cosTheta.v
  IN [xq |-> xq,
      xd |-> FlAdd(xq, (worldX * cosTheta.e + worldY * sinTheta.e) * CosHalfPi),
      yq |-> yq,
      yd |-> FlAdd(yq, ((-worldX) * sinTheta.e + worldY * cosTheta.e) * CosHalfPi)]

\* lines 411-412: Math.round((originalWorld + mapSize / 2) * worldToTexScale)
TexIndex(q, d, mapSize, originalSize) ==
  LET sumq == q + 2 * mapSize
  IN RoundScaled(sumq, FlAdd(sumq, d), originalSize, mapSize)

\* lines 389-412: the source texel (texX, texY) of destination pixel (x, y).
\* minX .. maxY are in half units, cropWidth and cropHeight in pixels.
TexCoord(a, minX, maxX, minY, maxY, cropWidth, cropHeight, x, y) ==
  LET worldX == WorldCoord(minX, maxX, cropWidth, x)
      worldY == WorldCoord(minY, maxY, cropHeight, y)
      r == Rotated(worldX, worldY, a.rotation)
  IN [texX |-> TexIndex(r.xq, r.xd, a.mapWidth, a.originalWidth),
      texY |-> TexIndex(r.yq, r.yd, a.mapHeight, a.originalHeight)]

\* lines 414-433: byte k (from 1) of croppedData
CroppedByte_opaque(a, minX, maxX, minY, maxY, cropWidth, cropHeight, k) ==
  LET c == (k - 1) % 4
      p == (k - 1) \div 4
      t == TexCoord(a, minX, maxX, minY, maxY, cropWidth, cropHeight,
                    p % cropWidth, p \div cropWidth)
      bg == parseColor(a.backgroundColor)
  IN IF t.texX >= 0 /\ t.texX < a.originalWidth /\ t.texY >= 0 /\ t.texY < a.originalHeight
       THEN a.originalData[(t.texY * a.originalWidth + t.texX) * 4 + c + 1]
       ELSE IF c = 3 THEN 255 ELSE StoreByte(bg[c + 1])

CroppedByte(a, minX, maxX, minY, maxY, cropWidth, cropHeight, k) ==
  LET c == (k - 1) % 4
      p == (k - 1) \div 4
      x == p % cropWidth
      y == p \div cropWidth
      t == TexCoord(a, minX, maxX, minY, maxY, cropWidth, cropHeight, x, y)
      bg == parseColor(a.backgroundColor)
  IN IF t.texX >= 0 /\ t.texX < a.originalWidth /\ t.texY >= 0 /\ t.texY < a.originalHeight
       THEN a.originalData[(t.texY * a.originalWidth + t.texX) * 4 + c + 1]
       ELSE IF c = 3 THEN 0 ELSE StoreByte(bg[c + 1])

NullResult == [isNull |-> TRUE, data |-> <<>>, width |-> 0, height |-> 0]

\* the rectangle of a call, normalised (lines 325-328), in half units
CropBox(a) ==
  [minX |-> Min(a.start[1][1], a.end[1][1]), maxX |-> Max(a.start[1][1], a.end[1][1]),
   minY |-> Min(a.start[1][2], a.end[1][2]), maxY |-> Max(a.start[1][2], a.end[1][2])]

\* the pixel loop over a crop of cropWidth x cropHeight (lines 353, 387-435)
CroppedData(a, cropWidth, cropHeight) ==
  LET b == CropBox(a)
  IN [k \in 1..(cropWidth * cropHeight * 4) |->
        CroppedByte(a, b.minX, b.maxX, b.minY, b.maxY, cropWidth, cropHeight, k)]

getCropRect_ceilCheck(a) ==
  IF a.start = <<>> \/ a.end = <<>> \/ ~a.hasMesh THEN NullResult
  ELSE LET b == CropBox(a)
           cropWidth == (b.maxX - b.minX) \div 2
           cropHeight == (b.maxY - b.minY) \div 2
       IN IF (b.maxX - b.minX + 1) \div 2 <= 0 \/ (b.maxY - b.minY + 1) \div 2 <= 0
            THEN NullResult
          ELSE IF ~a.hasTexture THEN NullResult
          ELSE [isNull |-> FALSE, data |-> CroppedData(a, cropWidth, cropHeight),
                width |-> cropWidth, height |-> cropHeight]

getCropRect_roundSize(a) ==
  IF a.start = <<>> \/ a.end = <<>> \/ ~a.hasMesh THEN NullResult
  ELSE LET b == CropBox(a)
           cropWidth == MathRound(b.maxX - b.minX, 2)
           cropHeight == MathRound(b.maxY - b.minY, 2)
       IN IF cropWidth <= 0 \/ cropHeight <= 0 THEN NullResult
          ELSE IF ~a.hasTexture THEN NullResult
          ELSE [isNull |-> FALSE, data |-> CroppedData(a, cropWidth, cropHeight),
                width |-> cropWidth, height |-> cropHeight]

\* getCropRect(): a.start and a.end are <<>> (null) or <<<<x, y>>>> in half units
getCropRect(a) ==
  IF a.start = <<>> \/ a.end = <<>> \/ ~a.hasMesh THEN NullResult
  ELSE LET b == CropBox(a)
           cropWidth == (b.maxX - b.minX) \div 2
           cropHeight == (b.maxY - b.minY) \div 2
       IN IF cropWidth <= 0 \/ cropHeight <= 0 THEN NullResult
          ELSE IF ~a.hasTexture THEN NullResult
          ELSE [isNull |-> FALSE, data |-> CroppedData(a, cropWidth, cropHeight),
                width |-> cropWidth, height |-> cropHeight]

(***************************************************************************)
(* State                                                                   *)
(***************************************************************************)
VARIABLES
  queue,        \* PGMWorkerManager.queue: entries {message, resolve, reject}
  processing,   \* PGMWorkerManager.processing
  workerInbox,  \* messages posted to the worker it has not handled yet
  workerOutbox, \* responses the worker posted, not yet given to handleMessage
  promises,     \* promises[rid]: the promise returned by the rid-th process()
  settled,      \* rids in the order their resolve/reject was called
  loads,        \* the processData() invocations of PGMMapLoader
  mapData,      \* PGMMapLoader.mapData: <<>> is null, <<m>> is the map m
  lastEvent,    \* what the last step did (observation only)
  cropArgs,     \* CropTool: the props and state one getCropRect() call reads
  cropResult,   \* <<>> before the call, <<r>> with its return value r after
  isSelected,   \* useMapRotation: the map is selected
  rotation,     \* useMapRotation: the map's rotation in degrees
  isCropMode,   \* PGMMapLoader.isCropMode
  isCropToolEnabled, \* PGMMapLoader.isCropToolEnabled
  activeTool,   \* PGMMapLoader.activeTool
  undoStack,    \* PGMMapLoader.undoStack
  canUndo,      \* PGMMapLoader.canUndo
  start,        \* CropTool.start: <<>> is null, <<<<x, y>>>> in half units
  end,          \* CropTool.end
  arrayBuffer,  \* ImageViewer: the bytes one constructor call is given
  imageViewer,  \* <<>> before the call, <<r>> with its outcome r after
  enableRotate, \* controlsRef.current.enableRotate of the OrbitControls
  timers,       \* pending setTimeout callbacks, in the order they were set
  redoStack,    \* useUndoStack.redoStack
  canRedo,      \* useUndoStack.canRedo
  cropHistory   \* the maps displayed before each crop that no undo has taken
                \* back yet (observation only)

varsLoader == <<queue, processing, workerInbox, workerOutbox, promises, settled,
                loads, mapData, lastEvent>>
varsCrop == <<cropArgs, cropResult>>
varsParse == <<arrayBuffer, imageViewer>>
varsCamera == <<enableRotate, timers>>
varsRedo == <<redoStack, canRedo, cropHistory>>
varsEditor == <<isSelected, rotation, isCropMode, isCropToolEnabled, activeTool,
                undoStack, canUndo, start, end>>
vars == <<queue, processing, workerInbox, workerOutbox, promises, settled,
          loads, mapData, lastEvent, cropArgs, cropResult,
          isSelected, rotation, isCropMode, isCropToolEnabled, activeTool,
          undoStack, canUndo, start, end, arrayBuffer, imageViewer,
          enableRotate, timers, redoStack, canRedo, cropHistory>>

(***************************************************************************)
(* PGMViewer.tsx : the ImageViewer constructor                             *)
(*                                                                         *)
(* A file is the sequence of its bytes.  The header text is a sequence of  *)
(* character codes; positions are counted from 1 here and from 0 in the    *)
(* code.                                                                   *)
(***************************************************************************)
\* the bytes the constructor decodes as the header text (line 14)
HeaderBytes == 100

\* character codes of the header
LF == 10
SP == 32
HASH == 35
CharP == 80
Char0 == 48
ReplacementChar == 65533

\* new TextDecoder("utf-8").decode(bytes): ASCII bytes are their characters;
\* the model's other bytes (0x80 and above, never a valid sequence in the
\* files of the model) each become U+FFFD
TextDecode(bytes) ==
  [i \in 1..Len(bytes) |-> IF bytes[i] < 128 THEN bytes[i] ELSE ReplacementChar]

\* arrayBuffer.slice(begin) for begin >= 0
Slice(bytes, begin) ==
  IF begin >= Len(bytes) THEN <<>> ELSE SubSeq(bytes, begin + 1, Len(bytes))

\* the character classes \s, \d and . of the regular expression
WhiteSpace == {9, 10, 11, 12, 13, SP}
Digits == Char0..(Char0 + 9)
LineTerminators == {10, 13}

\* the position after the longest run of characters of class cls from p on
RunEnd(t, p, cls) ==
  CHOOSE q \in p..(Len(t) + 1) :
    /\ \A k \in p..(q - 1) : t[k] \in cls
    /\ q = Len(t) + 1 \/ t[q] \notin cls

\* the position after the longest run of characters . matches from p on
LineEnd(t, p) ==
  CHOOSE q \in p..(Len(t) + 1) :
    /\ \A k \in p..(q - 1) : t[k] \notin LineTerminators
    /\ q = Len(t) + 1 \/ t[q] \in LineTerminators

\* a match result: the three captures and the position of the last
\* character of the match
NoMatch == [matched |-> FALSE, m1 |-> <<>>, m2 |-> <<>>, m3 |-> <<>>, last |-> 0]

\* (\d+)\s+(\d+)\s+(\d+) at position p: every greedy run is the longest one
MatchNumbers(t, p) ==
  LET w2 == RunEnd(t, p, Digits)
      s1 == RunEnd(t, w2, WhiteSpace)
      h2 == RunEnd(t, s1, Digits)
      s2 == RunEnd(t, h2, WhiteSpace)
      m2 == RunEnd(t, s2, Digits)
  IN IF w2 > p /\ s1 > w2 /\ h2 > s1 /\ s2 > h2 /\ m2 > s2
       THEN [matched |-> TRUE, m1 |-> SubSeq(t, p, w2 - 1),
             m2 |-> SubSeq(t, s1, h2 - 1), m3 |-> SubSeq(t, s2, m2 - 1),
             last |-> m2 - 1]
       ELSE NoMatch

\* (?:#.*\s)*(\d+)\s+(\d+)\s+(\d+) at position p, as the backtracking
\* matcher finds it: a comment takes the longest .* for which the rest matches
RECURSIVE MatchComments(_, _)
MatchComments(t, p) ==
  IF p > Len(t) THEN NoMatch
  ELSE IF t[p] = HASH
    THEN LET ends == {q \in (p + 1)..Min(LineEnd(t, p + 1), Len(t)) :
                        t[q] \in WhiteSpace /\ MatchComments(t, q + 1).matched}
         IN IF ends = {} THEN NoMatch
            ELSE MatchComments(t, (CHOOSE q \in ends : \A r \in ends : r <= q) + 1)
  ELSE MatchNumbers(t, p)

\* headerText.match(/^P5\s+(?:#.*\s)*(\d+)\s+(\d+)\s+(\d+)/)
MatchHeader_noZero(t) ==
  IF Len(t) >= 3 /\ t[1] = CharP /\ t[2] = Char0 + 5 /\ t[3] \in WhiteSpace
    THEN LET r == MatchComments(t, RunEnd(t, 3, WhiteSpace))
         IN IF r.matched /\ (r.m1 = <<Char0>> \/ r.m2 = <<Char0>>) THEN NoMatch ELSE r
    ELSE NoMatch

MatchHeader(t) ==
  IF Len(t) >= 3 /\ t[1] = CharP /\ t[2] = Char0 + 5 /\ t[3] \in WhiteSpace
    THEN MatchComments(t, RunEnd(t, 3, WhiteSpace))
    ELSE NoMatch

\* parseInt(digits, 10)
RECURSIVE parseInt(_)
parseInt(digits) ==
  IF Len(digits) = 0 THEN 0
  ELSE 10 * parseInt(SubSeq(digits, 1, Len(digits) - 1)) + (digits[Len(digits)] - Char0)

\* String(n) for n >= 0
RECURSIVE DecimalString(_)
DecimalString(n) ==
  IF n < 10 THEN <<Char0 + n>> ELSE Append(DecimalString(n \div 10), Char0 + (n % 10))

\* t.indexOf(needle), counted from 0; -1 when needle does not occur
indexOf(t, needle) ==
  LET at == {i \in 0..(Len(t) - Len(needle)) :
               \A k \in 1..Len(needle) : t[i + k] = needle[k]}
  IN IF at = {} THEN -1 ELSE CHOOSE i \in at : \A j \in at : i <= j

\* BinaryParser(buffer, bytes).getAllSamples(), constructed without a
\* maxValue: bytes unchanged in 1-byte mode, the high byte of each
\* little-endian pair in 2-byte mode
getAllSamples(buffer, bytes) ==
  IF bytes = 1 THEN buffer
  ELSE [i \in 1..(Len(buffer) \div 2) |-> buffer[2 * i]]

\* the header end computed at lines 30-33
HeaderEnd(headerText, maxVal) ==
  indexOf(headerText, <<LF>> \o DecimalString(maxVal)) + Len(<<LF>> \o DecimalString(maxVal)) + 1

\* new ImageViewer(arrayBuffer): threw tells that the constructor threw, the
\* other fields are what it computed
ImageViewer(buffer) ==
  LET headerText == TextDecode(SubSeq(buffer, 1, Min(HeaderBytes, Len(buffer))))
      match == MatchHeader(headerText)
      maxVal == parseInt(match.m3)
      headerEnd == HeaderEnd(headerText, maxVal)
      bytes == IF maxVal < 256 THEN 1 ELSE 2
  IN IF ~match.matched
       THEN [threw |-> TRUE, width |-> 0, height |-> 0, maxVal |-> 0,
             headerEnd |-> 0, matchEnd |-> 0, data |-> <<>>]
       ELSE [threw |-> FALSE, width |-> parseInt(match.m1),
             height |-> parseInt(match.m2), maxVal |-> maxVal,
             headerEnd |-> headerEnd, matchEnd |-> match.last,
             data |-> getAllSamples(Slice(buffer, headerEnd), bytes)]

(***************************************************************************)
(* Inputs                                                                  *)
(***************************************************************************)
\* a decode request message; cloneable tells whether postMessage can
\* serialise it (structured clone) or throws
Msg(st, w, h, d) ==
  [hasMapData |-> TRUE, hasInfo |-> TRUE, sourceType |-> st,
   width |-> w, height |-> h, data |-> d, cloneable |-> TRUE]

\* messages other callers hand to the public process(message: any)
ApiMessages ==
  { Msg("liveCostmap", 1, 2, <<0, 50>>),
    [Msg("pgmFile", 0, 0, <<>>) EXCEPT !.hasMapData = FALSE],
    [Msg("rosMap", 1, 1, <<0>>) EXCEPT !.cloneable = FALSE] }

\* files a "file" load can fetch: one that is no PGM file ("P2"), and
\* "P5\n2 2\n255\n" followed by the samples 10, 20, 30, 40
Files ==
  { <<CharP, 50>>,
    <<CharP, 53, LF, 50, SP, 50, LF, 50, 53, 53, LF, 10, 20, 30, 40>> }

\* contents of a "ros" load: props.content
RosContents ==
  { [hasInfo |-> FALSE, width |-> 0, height |-> 0, data |-> <<0>>],
    [hasInfo |-> TRUE, width |-> 2, height |-> 1, data |-> <<-1, 50>>],
    [hasInfo |-> TRUE, width |-> -1, height |-> 1, data |-> <<0>>] }

(***************************************************************************)
(* PGMWorkerManager.ts                                                     *)
(***************************************************************************)
\* the manager's fields together with the worker's message queue and the
\* promises, as the state the three methods work on
Manager ==
  [queue |-> queue, processing |-> processing, inbox |-> workerInbox,
   promises |-> promises, settled |-> settled]

RECURSIVE processNext_flagNotSet(_)
processNext_flagNotSet(m) ==
  IF Len(m.queue) = 0 THEN [m EXCEPT !.processing = FALSE]
  ELSE IF m.processing THEN m
  ELSE LET e == m.queue[1]
       IN IF e.message.cloneable
            THEN [m EXCEPT !.inbox = Append(@, [message |-> e.message, rid |-> e.rid])]
            ELSE processNext_flagNotSet([m EXCEPT !.queue = Tail(@),
                                                  !.promises[e.rid].state = "rejected",
                                                  !.settled = Append(@, e.rid),
                                                  !.processing = FALSE])

RECURSIVE processNext(_)
processNext(m) ==
  IF Len(m.queue) = 0 THEN [m EXCEPT !.processing = FALSE]
  ELSE IF m.processing THEN m
  ELSE LET e == m.queue[1]
       IN IF e.message.cloneable
            THEN [m EXCEPT !.processing = TRUE,
                           !.inbox = Append(@, [message |-> e.message, rid |-> e.rid])]
            ELSE \* postMessage threw: reject, drop the entry, go on
                 processNext([m EXCEPT !.queue = Tail(@),
                                       !.promises[e.rid].state = "rejected",
                                       !.settled = Append(@, e.rid),
                                       !.processing = FALSE])

\* process(message): owner is the load awaiting the promise (0: another caller)
process(m, message, owner) ==
  LET rid == Len(m.promises) + 1
      m1 == [m EXCEPT !.queue = Append(@, [message |-> message, rid |-> rid, owner |-> owner]),
                      !.promises = Append(@, [state |-> "pending", behind |-> Len(m.queue)])]
  IN IF ~m1.processing THEN processNext(m1) ELSE m1

handleMessage_noNext(m, data) ==
  IF Len(m.queue) = 0 THEN m
  ELSE LET e == m.queue[1]
       IN [m EXCEPT !.queue = Tail(@),
                    !.promises[e.rid].state = "resolved",
                    !.settled = Append(@, e.rid),
                    !.processing = FALSE]

handleMessage_pop(m, data) ==
  IF Len(m.queue) = 0 THEN m
  ELSE LET e == m.queue[Len(m.queue)]
       IN processNext([m EXCEPT !.queue = SubSeq(@, 1, Len(@) - 1),
                                !.promises[e.rid].state = "resolved",
                                !.settled = Append(@, e.rid),
                                !.processing = FALSE])

handleMessage(m, data) ==
  IF Len(m.queue) = 0 THEN m
  ELSE LET e == m.queue[1]
       IN processNext([m EXCEPT !.queue = Tail(@),
                                !.promises[e.rid].state = "resolved",
                                !.settled = Append(@, e.rid),
                                !.processing = FALSE])

(***************************************************************************)
(* PGMMapLoader.tsx : processData                                          *)
(***************************************************************************)
\* the catch blocks of processData: a load whose promise was rejected ends
AfterRejects(ls, m) ==
  [l \in 1..Len(ls) |->
     IF ls[l].pc = "waiting" /\ m.promises[ls[l].rid].state = "rejected"
       THEN [ls[l] EXCEPT !.pc = "failed"]
       ELSE ls[l]]

SetManager(m) ==
  /\ queue' = m.queue
  /\ processing' = m.processing
  /\ workerInbox' = m.inbox
  /\ promises' = m.promises
  /\ settled' = m.settled

\* useEffect -> processData() with sourceType "file": runs up to the fetch
StartFileLoad(file) ==
  /\ Len(loads) < MaxLoads
  /\ loads' = Append(loads, [sourceType |-> "file", file |-> file, pc |-> "fetching", rid |-> 0])
  /\ lastEvent' = [op |-> "startLoad", load |-> Len(loads) + 1, changedMap |-> FALSE]
  /\ UNCHANGED <<queue, processing, workerInbox, workerOutbox, promises, settled, mapData, varsCrop, varsCamera, varsRedo, varsParse, varsEditor>>

\* processData() after the fetch settled: response.ok check, arrayBuffer,
\* ImageViewer, manager.process(message)
FetchDone(l, ok) ==
  /\ l \in 1..Len(loads)
  /\ loads[l].pc = "fetching"
  /\ LET iv == ImageViewer(loads[l].file)
     IN IF ~ok \/ iv.threw
          THEN /\ loads' = [loads EXCEPT ![l].pc = "failed"]
               /\ lastEvent' = [op |-> "loadFailed", load |-> l, changedMap |-> FALSE]
               /\ UNCHANGED <<queue, processing, workerInbox, promises, settled>>
          ELSE /\ Len(promises) < MaxRequests
               /\ LET m == process(Manager, Msg("pgmFile", iv.width, iv.height, iv.data), l)
                  IN /\ SetManager(m)
                     /\ loads' = AfterRejects([loads EXCEPT ![l].pc = "waiting",
                                                            ![l].rid = Len(promises) + 1], m)
               /\ lastEvent' = [op |-> "enqueued", load |-> l, changedMap |-> FALSE]
  /\ UNCHANGED <<workerOutbox, mapData, varsCrop, varsCamera, varsRedo, varsParse, varsEditor>>

StartRosLoad_noInfoCheck(content) ==
  /\ Len(loads) < MaxLoads
  /\ LET l == Len(loads) + 1
         ld == [sourceType |-> "ros", file |-> content, pc |-> "waiting", rid |-> 0]
     IN IF FALSE
          THEN /\ loads' = Append(loads, [ld EXCEPT !.pc = "failed"])
               /\ lastEvent' = [op |-> "loadFailed", load |-> l, changedMap |-> FALSE]
               /\ UNCHANGED <<queue, processing, workerInbox, promises, settled>>
          ELSE /\ Len(promises) < MaxRequests
               /\ LET m == process(Manager,
                                   Msg("rosMap", content.width, content.height,
                                       Int8Array(content.data)), l)
                  IN /\ SetManager(m)
                     /\ loads' = AfterRejects(Append(loads, [ld EXCEPT !.rid = Len(promises) + 1]), m)
               /\ lastEvent' = [op |-> "enqueued", load |-> l, changedMap |-> FALSE]
  /\ UNCHANGED <<workerOutbox, mapData, varsCrop, varsCamera, varsRedo, varsParse, varsEditor>>

\* useEffect -> processData() with sourceType "ros": runs up to the await
StartRosLoad(content) ==
  /\ Len(loads) < MaxLoads
  /\ LET l == Len(loads) + 1
         ld == [sourceType |-> "ros", file |-> content, pc |-> "waiting", rid |-> 0]
     IN IF ~content.hasInfo
          THEN /\ loads' = Append(loads, [ld EXCEPT !.pc = "failed"])
               /\ lastEvent' = [op |-> "loadFailed", load |-> l, changedMap |-> FALSE]
               /\ UNCHANGED <<queue, processing, workerInbox, promises, settled>>
          ELSE /\ Len(promises) < MaxRequests
               /\ LET m == process(Manager,
                                   Msg("rosMap", content.width, content.height,
                                       Int8Array(content.data)), l)
                  IN /\ SetManager(m)
                     /\ loads' = AfterRejects(Append(loads, [ld EXCEPT !.rid = Len(promises) + 1]), m)
               /\ lastEvent' = [op |-> "enqueued", load |-> l, changedMap |-> FALSE]
  /\ UNCHANGED <<workerOutbox, mapData, varsCrop, varsCamera, varsRedo, varsParse, varsEditor>>

\* another caller of PGMWorkerManager.getInstance().process(message)
Process(message) ==
  /\ Len(promises) < MaxRequests
  /\ LET m == process(Manager, message, 0)
     IN /\ SetManager(m)
        /\ loads' = AfterRejects(loads, m)
  /\ lastEvent' = [op |-> "enqueued", load |-> 0, changedMap |-> FALSE]
  /\ UNCHANGED <<workerOutbox, mapData, varsCrop, varsCamera, varsRedo, varsParse, varsEditor>>

\* the worker thread handles the oldest message posted to it
WorkerOnMessage ==
  /\ Len(workerInbox) > 0
  /\ workerOutbox' = Append(workerOutbox, [data |-> onmessage(workerInbox[1].message),
                                           rid |-> workerInbox[1].rid])
  /\ workerInbox' = Tail(workerInbox)
  /\ lastEvent' = [op |-> "worker", load |-> 0, changedMap |-> FALSE]
  /\ UNCHANGED <<queue, processing, promises, settled, loads, mapData, varsCrop, varsCamera, varsRedo, varsParse, varsEditor>>

\* the main thread delivers the oldest response: handleMessage, then the
\* continuation of the await in processData (setMapData) as a microtask
HandleMessage ==
  /\ Len(workerOutbox) > 0
  /\ LET data == workerOutbox[1].data
         m == handleMessage(Manager, data)
         owner == IF Len(queue) = 0 THEN 0 ELSE queue[1].owner
     IN /\ SetManager(m)
        /\ workerOutbox' = Tail(workerOutbox)
        /\ IF owner = 0
             THEN /\ mapData' = mapData
                  /\ loads' = AfterRejects(loads, m)
             ELSE /\ mapData' = <<[data |-> data.data, width |-> data.width,
                                   height |-> data.height]>>
                  /\ loads' = AfterRejects([loads EXCEPT ![owner].pc = "done"], m)
        /\ lastEvent' = [op |-> "response", load |-> owner,
                         changedMap |-> (owner # 0)]
  /\ UNCHANGED <<varsCrop, varsCamera, varsRedo, varsParse, varsEditor>>

\* the manager, the worker and the loader right after construction
InitLoader ==
  /\ queue = <<>>
  /\ processing = FALSE
  /\ workerInbox = <<>>
  /\ workerOutbox = <<>>
  /\ promises = <<>>
  /\ settled = <<>>
  /\ loads = <<>>
  /\ lastEvent = [op |-> "init", load |-> 0, changedMap |-> FALSE]

\* the editor state of PGMMapLoader and useMapRotation after the first render
InitEditor ==
  /\ isSelected = FALSE
  /\ rotation = 0
  /\ isCropMode = FALSE
  /\ isCropToolEnabled = FALSE
  /\ activeTool = "select"
  /\ undoStack = <<>>
  /\ canUndo = FALSE
  /\ start = <<>>
  /\ end = <<>>

\* the orbit controls as mounted (enableRotate={false}), no timeout pending
InitCamera ==
  /\ enableRotate = FALSE
  /\ timers = <<>>

\* useUndoStack's redo state after the first render
InitRedo ==
  /\ redoStack = <<>>
  /\ canRedo = FALSE
  /\ cropHistory = <<>>

\* no ImageViewer constructor call under way
InitParse ==
  /\ arrayBuffer = <<>>
  /\ imageViewer = <<>>

\* no getCropRect() call under way
InitCrop ==
  /\ cropArgs = <<>>
  /\ cropResult = <<>>

Init ==
  /\ InitLoader
  /\ mapData = <<>>
  /\ InitEditor
  /\ InitCamera
  /\ InitRedo
  /\ InitCrop
  /\ InitParse

Next ==
  \/ \E f \in Files : StartFileLoad(f)
  \/ \E l \in 1..MaxLoads, ok \in BOOLEAN : FetchDone(l, ok)
  \/ \E c \in RosContents : StartRosLoad(c)
  \/ \E msg \in ApiMessages : Process(msg)
  \/ WorkerOnMessage
  \/ HandleMessage

Spec == Init /\ [][Next]_vars

\* the manager and the worker under any callers of process(): the worker's
\* thread handles every message posted to it and the main thread's event
\* loop delivers every response the worker posted
QueueNext ==
  \/ \E message \in ApiMessages : Process(message)
  \/ WorkerOnMessage
  \/ HandleMessage

FairSpec ==
  Init /\ [][QueueNext]_vars /\ WF_vars(WorkerOnMessage) /\ WF_vars(HandleMessage)

(***************************************************************************)
(* Properties of the worker manager and of the loader                      *)
(***************************************************************************)
\* the messages posted to the worker whose response handleMessage has not
\* been given yet
InFlight == Len(workerInbox) + Len(workerOutbox)

\* the request the message in flight belongs to
InFlightRid ==
  IF Len(workerInbox) > 0 THEN workerInbox[1].rid ELSE workerOutbox[1].rid

\* C1: at most one request is in flight; the one in flight is the oldest
\* queued request, and it was posted only after every earlier request had
\* its response handled (or was rejected)
C1_OneInFlight ==
  /\ InFlight <= 1
  /\ InFlight = 1 =>
       /\ processing
       /\ Len(queue) >= 1
       /\ queue[1].rid = InFlightRid
       /\ \A i \in 2..Len(queue) : queue[i].rid > queue[1].rid
       /\ \A r \in 1..Len(promises) :
            r < InFlightRid => promises[r].state # "pending"

\* a request that had to wait behind another one is in flight, after the
\* earlier response was handled, with a third request queued behind it
C1_Witness ==
  /\ InFlight = 1
  /\ Len(queue) >= 2
  /\ promises[queue[1].rid].behind >= 1
  /\ promises[1].state = "resolved"

\* C2: promises are settled in the order of their process() calls
C2_SettledInOrder == \A i \in 1..Len(settled) : settled[i] = i

\* two requests were resolved, the second enqueued while the first was
\* still waiting for its response
C2_Witness ==
  /\ Len(settled) >= 2
  /\ promises[1].state = "resolved" /\ promises[2].state = "resolved"
  /\ promises[2].behind >= 1

\* this step ends a load in failure: the fetch failed, the header did not
\* parse, the info was missing, or the worker's conversion failed and it
\* answered with its fallback response
LoadFails ==
  \/ lastEvent'.op = "loadFailed"
  \/ /\ lastEvent'.op = "response" /\ lastEvent'.load # 0
     /\ workerOutbox # <<>> /\ workerOutbox[1].data = FallbackResponse

\* C3: a load attempt that fails at any stage leaves mapData unchanged
C3_FailedLoadKeepsMap == [][LoadFails => mapData' = mapData]_vars

\* C4: every response the worker posts has data.length = width * height * 4
C4_ResponseLength ==
  \A i \in 1..Len(workerOutbox) :
    Len(workerOutbox[i].data.data)
      = workerOutbox[i].data.width * workerOutbox[i].data.height * 4

\* this step starts a ros-type load whose content has no info
StartsRosLoadWithoutInfo ==
  /\ Len(loads') = Len(loads) + 1
  /\ loads'[Len(loads')].sourceType = "ros"
  /\ ~loads'[Len(loads')].file.hasInfo

\* C18: a ros-type load started with content that has no info fails
\* locally: nothing is enqueued on the worker manager, nothing is posted to
\* the worker, and mapData keeps its value
C18_MissingInfoFailsLocally ==
  [][StartsRosLoadWithoutInfo =>
       /\ loads'[Len(loads')].pc = "failed"
       /\ UNCHANGED <<queue, processing, workerInbox, workerOutbox, promises,
                      settled, mapData>>]_vars

\* a ros-type load without info has failed after a file load had put its
\* map on display; the map is still there and the manager is idle
C18_Witness ==
  /\ Len(loads) = 2
  /\ loads[1].sourceType = "file" /\ loads[1].pc = "done"
  /\ loads[2].sourceType = "ros" /\ ~loads[2].file.hasInfo /\ loads[2].pc = "failed"
  /\ lastEvent.op = "loadFailed" /\ lastEvent.load = 2
  /\ mapData # <<>> /\ mapData[1].width = 2 /\ mapData[1].height = 2
  /\ Len(promises) = 1 /\ queue = <<>>

\* request i was passed to process() and its promise is neither resolved nor
\* rejected yet
Pending(i) == i <= Len(promises) /\ promises[i].state = "pending"

Settled(i) == i <= Len(promises) /\ promises[i].state # "pending"

\* C26: every request passed to process() is eventually settled, however
\* many requests are queued, when the worker handles each message posted to
\* it and its responses are delivered
C26_EveryRequestSettled ==
  \A i \in 1..MaxRequests : Pending(i) ~> Settled(i)

\* three requests were settled, the last of them passed to process() behind
\* two that were still queued
C26_Witness ==
  /\ Len(promises) >= 3
  /\ \A i \in 1..3 : Settled(i)
  /\ promises[3].behind = 2 /\ promises[3].state = "resolved"

\* the map a completed load of the given props puts on display: the
\* worker's response to the message processData builds from them
DecodeOf(load) ==
  LET iv == ImageViewer(load.file)
      r == IF load.sourceType = "file"
             THEN onmessage(Msg("pgmFile", iv.width, iv.height, iv.data))
             ELSE onmessage(Msg("rosMap", load.file.width, load.file.height,
                                Int8Array(load.file.data)))
  IN [data |-> r.data, width |-> r.width, height |-> r.height]

\* C28: when the props changed from P1 to P2 during the load for P1, then
\* once both loads have completed mapData is the decode of P2
C28_LatestPropsWin ==
  (Len(loads) = 2 /\ loads[1].pc = "done" /\ loads[2].pc = "done") =>
    mapData = <<DecodeOf(loads[2])>>

(***************************************************************************)
(* The crop as a function: one getCropRect() call on drawn inputs          *)
(***************************************************************************)
\* an RGBA image whose bytes are all different
Image(w, h) == [k \in 1..(w * h * 4) |-> k]

\* backgroundColor props: the default "#cdcdcd", a short hex colour and a
\* colour name parseColor does not understand
BgColors ==
  { <<"#", "c", "d", "c", "d", "c", "d">>, <<"#", "f", "8", "0">>,
    <<"w", "h", "i", "t", "e">> }

Coords == (-MaxCoord)..MaxCoord

\* the state a getCropRect() call reads when the tool shows a w x h map at
\* its pixel size (the plane geometry and the texture come from one mapData)
CropArg(w, h, deg, bg, s, e) ==
  [start |-> <<s>>, end |-> <<e>>, hasMesh |-> TRUE, hasTexture |-> TRUE,
   originalData |-> Image(w, h), originalWidth |-> w, originalHeight |-> h,
   mapWidth |-> w, mapHeight |-> h, rotation |-> deg, backgroundColor |-> bg]

\* the rectangle the tool starts with (lines 120-121): the whole map
FullRect(w, h) == [start |-> <<-w, -h>>, end |-> <<w, h>>]

\* calls that find no rectangle, no mesh or no texture
MissingInputs ==
  { [CropArg(2, 2, 0, <<"#", "f", "8", "0">>, <<-2, -2>>, <<2, 2>>) EXCEPT !.start = <<>>, !.end = <<>>],
    [CropArg(2, 2, 0, <<"#", "f", "8", "0">>, <<-2, -2>>, <<2, 2>>) EXCEPT !.hasMesh = FALSE],
    [CropArg(2, 2, 0, <<"#", "f", "8", "0">>, <<-2, -2>>, <<2, 2>>) EXCEPT !.hasTexture = FALSE] }

\* a crop tool about to be asked for its crop: any map size, rotation,
\* background colour and rectangle of the model
CropInit ==
  /\ InitLoader
  /\ mapData = <<>>
  /\ InitEditor
  /\ InitCamera
  /\ InitRedo
  /\ \/ \E w \in 1..MaxDim, h \in 1..MaxDim, deg \in Rotations, bg \in BgColors,
            sx \in Coords, sy \in Coords, ex \in Coords, ey \in Coords :
          cropArgs = <<CropArg(w, h, deg, bg, <<sx, sy>>, <<ex, ey>>)>>
     \/ \E a \in MissingInputs : cropArgs = <<a>>
  /\ cropResult = <<>>
  /\ InitParse

\* the parent calls cropToolRef.current.getCropRect()
GetCropRect ==
  /\ cropArgs # <<>>
  /\ cropResult = <<>>
  /\ cropResult' = <<getCropRect(cropArgs[1])>>
  /\ UNCHANGED <<cropArgs, varsLoader, varsEditor, varsParse, varsCamera, varsRedo>>

CropNext == GetCropRect

CropSpec == CropInit /\ [][CropNext]_vars

(***************************************************************************)
(* Properties of getCropRect                                               *)
(***************************************************************************)
\* the call has returned a result (not null)
Cropped == cropResult # <<>> /\ ~cropResult[1].isNull

\* pixel (x, y) of an RGBA buffer of the given width, as its four channels
PixelOf(data, width, x, y) ==
  [c \in 0..3 |-> data[(y * width + x) * 4 + c + 1]]

\* the RGB a backgroundColor string stands for ("white" is not parsed and
\* gives the default light gray)
ConfiguredRGB(color) ==
  CASE color = <<"#", "c", "d", "c", "d", "c", "d">> -> <<205, 205, 205>>
    [] color = <<"#", "f", "8", "0">> -> <<255, 136, 0>>
    [] OTHER -> <<205, 205, 205>>

\* what sampling texel (tx, ty) of the source gives: the texel, or the
\* transparent background outside of the image
SampleAt(a, tx, ty) ==
  IF tx >= 0 /\ tx < a.originalWidth /\ ty >= 0 /\ ty < a.originalHeight
    THEN PixelOf(a.originalData, a.originalWidth, tx, ty)
    ELSE [c \in 0..3 |-> IF c = 3 THEN 0 ELSE ConfiguredRGB(a.backgroundColor)[c + 1]]

\* the rectangle of the call covers exactly the whole image
IsFullRect(a) ==
  /\ a.start # <<>> /\ a.end # <<>>
  /\ {a.start[1], a.end[1]} = {<<-a.originalWidth, -a.originalHeight>>,
                               <<a.originalWidth, a.originalHeight>>}

\* C5: with rotation 0, display size = pixel size and the rectangle covering
\* the whole W x H image, getCropRect returns W, H and the source's pixels
C5_IdentityCrop ==
  (cropResult # <<>> /\ cropArgs[1].hasMesh /\ cropArgs[1].hasTexture
     /\ IsFullRect(cropArgs[1]) /\ cropArgs[1].rotation = 0
     /\ cropArgs[1].mapWidth = cropArgs[1].originalWidth
     /\ cropArgs[1].mapHeight = cropArgs[1].originalHeight)
  => /\ ~cropResult[1].isNull
     /\ cropResult[1].width = cropArgs[1].originalWidth
     /\ cropResult[1].height = cropArgs[1].originalHeight
     /\ cropResult[1].data = cropArgs[1].originalData

\* an identity crop of a map of even width and odd height has returned
C5_Witness ==
  /\ Cropped /\ IsFullRect(cropArgs[1]) /\ cropArgs[1].rotation = 0
  /\ cropArgs[1].originalWidth = 2 /\ cropArgs[1].originalHeight = 1
  /\ cropResult[1].data = Image(2, 1)

\* C6: every destination pixel whose computed texel (texX, texY) lies in the
\* source equals that source pixel in all four channels; every other
\* destination pixel is the background RGB with alpha 0
C6_PixelRule ==
  Cropped =>
    LET a == cropArgs[1]
        r == cropResult[1]
        b == CropBox(a)
    IN \A x \in 0..(r.width - 1), y \in 0..(r.height - 1) :
         LET t == TexCoord(a, b.minX, b.maxX, b.minY, b.maxY, r.width, r.height, x, y)
         IN PixelOf(r.data, r.width, x, y) = SampleAt(a, t.texX, t.texY)

\* a crop has returned with a pixel copied from the source and a pixel
\* filled with the background of a hex colour
C6_Witness ==
  /\ Cropped
  /\ cropArgs[1].backgroundColor = <<"#", "f", "8", "0">>
  /\ \E k \in 1..(Len(cropResult[1].data) \div 4) :
       /\ cropResult[1].data[4 * k - 3] = 255
       /\ cropResult[1].data[4 * k - 2] = 136
       /\ cropResult[1].data[4 * k - 1] = 0
       /\ cropResult[1].data[4 * k] = 0
  /\ \E k \in 1..(Len(cropResult[1].data) \div 4) : cropResult[1].data[4 * k] # 0

\* the exact cosine and sine of a multiple of 90 degrees
ExactCos(deg) ==
  CASE deg % 360 = 0 -> 1 [] deg % 360 = 90 -> 0
    [] deg % 360 = 180 -> -1 [] deg % 360 = 270 -> 0

ExactSin(deg) ==
  CASE deg % 360 = 0 -> 0 [] deg % 360 = 90 -> 1
    [] deg % 360 = 180 -> 0 [] deg % 360 = 270 -> -1

\* the integers nearest to v/4 + size/2 (two of them when it lies half-way)
NearestTexels(v, size) == {k \in -16..16 : 4 * k - (v + 2 * size) \in -2..2}

\* every destination pixel of the result is the sample at a texel nearest to
\* the world position rotated by angle deg:
\* (wx cos(deg) + wy sin(deg), -wx sin(deg) + wy cos(deg))
SamplesRotatedBy(deg) ==
  LET a == cropArgs[1]
      r == cropResult[1]
      b == CropBox(a)
  IN \A x \in 0..(r.width - 1), y \in 0..(r.height - 1) :
       LET wx == 4 * x - 2 * r.width + (b.minX + b.maxX)
           wy == 4 * y - 2 * r.height + (b.minY + b.maxY)
           rx == wx * ExactCos(deg) + wy * ExactSin(deg)
           ry == (-wx) * ExactSin(deg) + wy * ExactCos(deg)
       IN \E tx \in NearestTexels(rx, a.originalWidth),
             ty \in NearestTexels(ry, a.originalHeight) :
            PixelOf(r.data, r.width, x, y) = SampleAt(a, tx, ty)

\* C7 as stated: a destination pixel at world position (wx, wy) samples the
\* source at the position rotated with cos(-theta) and sin(-theta); for 90
\* degrees that is (-wy, wx)
C7_RotatesByMinusTheta ==
  Cropped => SamplesRotatedBy(-cropArgs[1].rotation)

\* C7 amended: the position is rotated with cos(theta) and sin(theta) of the
\* rotation itself; for 90 degrees the pixel at (wx, wy) samples (wy, -wx)
C7_RotatesByTheta ==
  Cropped => SamplesRotatedBy(cropArgs[1].rotation)

\* a crop of a 2 x 2 map rotated by 90 degrees has returned, its pixel (1, 0)
\* at world position (0, -1) copied from the source texel (0, 1), which lies
\* at (wy, -wx) = (-1, 0)
C7_Witness ==
  /\ Cropped /\ IsFullRect(cropArgs[1]) /\ cropArgs[1].rotation = 90
  /\ cropArgs[1].originalWidth = 2 /\ cropArgs[1].originalHeight = 2
  /\ PixelOf(cropResult[1].data, 2, 1, 0) = PixelOf(Image(2, 2), 2, 0, 1)

\* C8: a rectangle less than one unit wide or high (so that the floor of its
\* extent is <= 0) gives null, and no result has width 0 or height 0
C8_DegenerateIsNull ==
  (cropResult # <<>> /\ cropArgs[1].start # <<>> /\ cropArgs[1].end # <<>>) =>
    LET a == cropArgs[1]
        r == cropResult[1]
    IN /\ (Abs(a.start[1][1] - a.end[1][1]) < 2 \/ Abs(a.start[1][2] - a.end[1][2]) < 2)
            => r.isNull
       /\ ~r.isNull => (r.width > 0 /\ r.height > 0 /\ Len(r.data) > 0)

\* null was returned for a rectangle half a unit wide and two units high
C8_Witness ==
  /\ cropResult # <<>> /\ cropResult[1].isNull
  /\ cropArgs[1].hasMesh /\ cropArgs[1].hasTexture
  /\ cropArgs[1].start = <<<<1, -2>>>> /\ cropArgs[1].end = <<<<0, 2>>>>

\* C9: a result has width floor(maxX - minX), height floor(maxY - minY) and
\* width * height * 4 bytes, whatever the rectangle and the rotation
C9_ResultSize ==
  Cropped =>
    LET a == cropArgs[1]
        r == cropResult[1]
    IN /\ r.width = Abs(a.start[1][1] - a.end[1][1]) \div 2
       /\ r.height = Abs(a.start[1][2] - a.end[1][2]) \div 2
       /\ Len(r.data) = r.width * r.height * 4

\* a result for a rotated 1 x 1 map and a rectangle of 1.5 x 2 units, most
\* of it outside of the map
C9_Witness ==
  /\ Cropped /\ cropArgs[1].rotation = 90
  /\ cropArgs[1].originalWidth = 1 /\ cropArgs[1].originalHeight = 1
  /\ cropArgs[1].start = <<<<2, 2>>>> /\ cropArgs[1].end = <<<<-1, -2>>>>
  /\ cropResult[1].width = 1 /\ cropResult[1].height = 2

\* the pixels of an RGBA buffer of the given size, as a set
PixelsOf(data, width, height) ==
  {PixelOf(data, width, x, y) : x \in 0..(width - 1), y \in 0..(height - 1)}

\* C29: the full-rectangle crop of a square N x N image rotated by 90, 180
\* or 270 degrees is N x N, every destination pixel is a source pixel, every
\* source pixel appears exactly once, and at 180 degrees destination (x, y)
\* is source (N - 1 - x, N - 1 - y)
C29_RotatedFullCropPermutes ==
  (/\ Cropped /\ IsFullRect(cropArgs[1])
   /\ cropArgs[1].originalWidth = cropArgs[1].originalHeight
   /\ cropArgs[1].rotation \in {90, 180, 270}) =>
    LET a == cropArgs[1]
        r == cropResult[1]
        N == a.originalWidth
    IN /\ r.width = N /\ r.height = N
       /\ PixelsOf(r.data, N, N) = PixelsOf(a.originalData, N, N)
       /\ a.rotation = 180 =>
            \A x \in 0..(N - 1), y \in 0..(N - 1) :
              PixelOf(r.data, N, x, y) = PixelOf(a.originalData, N, N - 1 - x, N - 1 - y)

(***************************************************************************)
(* PGMMapLoader.tsx : the editor (selection, tools, rotation, crop, undo)  *)
(***************************************************************************)
\* CropTool.tsx line 9
HANDLE_RADIUS == 6

\* the map the editor starts with: the decode of a 2 x 2 PGM file
EditorMap == onmessage(Msg("pgmFile", 2, 2, <<10, 20, 30, 40>>))

\* pointer positions on the crop tool's plane, in half units: where a drag
\* starts and where it ends
DownPoints == {<<-2, -2>>, <<0, 0>>}

MovePoints == {<<-2, -2>>, <<0, 0>>, <<1, 0>>, <<2, 2>>}

\* values the rotation slider and the angle input are set to
SliderValues == {0, 90}

\* what getCropRect() reads in this loader: the tool's rectangle, the map's
\* mesh and texture; rotation and backgroundColor are not passed to
\* <CropTool>, so that they take their defaults 0 and "#cdcdcd"
EditorCropArgs ==
  [start |-> start, end |-> end, hasMesh |-> TRUE, hasTexture |-> TRUE,
   originalData |-> mapData[1].data, originalWidth |-> mapData[1].width,
   originalHeight |-> mapData[1].height,
   mapWidth |-> mapData[1].width, mapHeight |-> mapData[1].height,
   rotation |-> 0, backgroundColor |-> <<"#", "c", "d", "c", "d", "c", "d">>]

\* CropTool lines 111-123: the rectangle after the tool is mounted or the
\* map's size changes while it is enabled
ResetRect(m) ==
  /\ start' = <<<<-m.width, -m.height>>>>
  /\ end' = <<<<m.width, m.height>>>>

\* useMapRotation.handleRotationChange(value)
handleRotationChange(value) ==
  rotation' = IF isSelected THEN value ELSE rotation

\* the four corners of the rectangle (lines 126-138), in half units
Corners(s, e) ==
  LET minX == Min(s[1], e[1])
      maxX == Max(s[1], e[1])
      minY == Min(s[2], e[2])
      maxY == Max(s[2], e[2])
  IN <<<<minX, minY>>, <<maxX, minY>>, <<maxX, maxY>>, <<minX, maxY>>>>

\* point.distanceTo(corner) < HANDLE_RADIUS, positions in half units
NearHandle(p, c) ==
  (p[1] - c[1]) * (p[1] - c[1]) + (p[2] - c[2]) * (p[2] - c[2])
    < (2 * HANDLE_RADIUS) * (2 * HANDLE_RADIUS)

\* onPointerDown: the drag type, 0..3 for a handle, "move", or "none"
DragType(p) ==
  LET cs == Corners(start[1], end[1])
  IN IF \E i \in 1..4 : NearHandle(p, cs[i])
       THEN (CHOOSE i \in 1..4 : NearHandle(p, cs[i])
                                 /\ \A j \in 1..(i - 1) : ~NearHandle(p, cs[j])) - 1
     ELSE IF p[1] > cs[1][1] /\ p[1] < cs[3][1] /\ p[2] > cs[1][2] /\ p[2] < cs[3][2]
       THEN 4
     ELSE 5

\* handleMapClickSafe -> useMapRotation.handleMapClick
HandleMapClick ==
  /\ mapData # <<>>
  /\ isSelected' = ~isSelected
  /\ lastEvent' = [op |-> "edit", load |-> 0, changedMap |-> FALSE]
  /\ UNCHANGED <<rotation, isCropMode, isCropToolEnabled, activeTool, undoStack,
                 canUndo, start, end, mapData>>
  /\ UNCHANGED <<queue, processing, workerInbox, workerOutbox, promises, settled,
                 loads, varsCrop, varsCamera, varsRedo, varsParse>>

\* handleToolChange(tool), from the toolbar buttons: the crop button is
\* disabled unless the map is selected, the rotate button also during a crop
HandleToolChange(tool) ==
  /\ mapData # <<>>
  /\ tool = "crop" => isSelected
  /\ tool = "rotate" => (isSelected /\ ~isCropMode)
  /\ activeTool' = tool
  /\ IF tool = "crop" /\ isSelected
       THEN /\ isCropMode' = TRUE
            /\ isCropToolEnabled' = TRUE
            /\ IF isCropMode THEN UNCHANGED <<start, end>> ELSE ResetRect(mapData[1])
       ELSE /\ isCropMode' = FALSE
            /\ isCropToolEnabled' = FALSE
            /\ start' = <<>>
            /\ end' = <<>>
  /\ lastEvent' = [op |-> "edit", load |-> 0, changedMap |-> FALSE]
  /\ UNCHANGED <<isSelected, rotation, undoStack, canUndo, mapData>>
  /\ UNCHANGED <<queue, processing, workerInbox, workerOutbox, promises, settled,
                 loads, varsCrop, varsCamera, varsRedo, varsParse>>

\* MapRotationControls: the slider and the angle input, shown with the rotate
\* tool and disabled unless the map is selected and no crop is under way
HandleSlider(value) ==
  /\ mapData # <<>>
  /\ activeTool = "rotate"
  /\ isSelected /\ ~isCropMode
  /\ handleRotationChange(value)
  /\ lastEvent' = [op |-> "edit", load |-> 0, changedMap |-> FALSE]
  /\ UNCHANGED <<isSelected, isCropMode, isCropToolEnabled, activeTool, undoStack,
                 canUndo, start, end, mapData>>
  /\ UNCHANGED <<queue, processing, workerInbox, workerOutbox, promises, settled,
                 loads, varsCrop, varsCamera, varsRedo, varsParse>>

\* MapRotationControls.handleQuickRotate(degrees): the -90 and +90 buttons,
\* disabled unless the map is selected and no crop is under way
HandleQuickRotate(degrees) ==
  /\ mapData # <<>>
  /\ activeTool = "rotate"
  /\ isSelected /\ ~isCropMode
  /\ Abs(rotation + degrees) <= MaxAngle
  /\ handleRotationChange(rotation + degrees)
  /\ lastEvent' = [op |-> "edit", load |-> 0, changedMap |-> FALSE]
  /\ UNCHANGED <<isSelected, isCropMode, isCropToolEnabled, activeTool, undoStack,
                 canUndo, start, end, mapData>>
  /\ UNCHANGED <<queue, processing, workerInbox, workerOutbox, promises, settled,
                 loads, varsCrop, varsCamera, varsRedo, varsParse>>

\* CropTool: one drag of the pointer, onPointerDown at down, onPointerMove to
\* point, onPointerUp
PointerDrag(down, point) ==
  /\ isCropMode /\ isCropToolEnabled
  /\ start # <<>> /\ end # <<>>
  /\ LET type == DragType(down)
         cs == Corners(start[1], end[1])
         opposite == cs[((type + 2) % 4) + 1]
         delta == <<point[1] - down[1], point[2] - down[2]>>
     IN /\ type # 5
        /\ CASE type = 4 ->
                  /\ start' = <<<<start[1][1] + delta[1], start[1][2] + delta[2]>>>>
                  /\ end' = <<<<end[1][1] + delta[1], end[1][2] + delta[2]>>>>
             [] type = 0 -> /\ start' = <<point>>
                            /\ end' = <<opposite>>
             [] type = 1 -> /\ start' = <<<<opposite[1], point[2]>>>>
                            /\ end' = <<<<point[1], opposite[2]>>>>
             [] type = 2 -> /\ start' = <<opposite>>
                            /\ end' = <<point>>
             [] type = 3 -> /\ start' = <<<<point[1], opposite[2]>>>>
                            /\ end' = <<<<opposite[1], point[2]>>>>
  /\ lastEvent' = [op |-> "edit", load |-> 0, changedMap |-> FALSE]
  /\ UNCHANGED <<isSelected, rotation, isCropMode, isCropToolEnabled, activeTool,
                 undoStack, canUndo, mapData>>
  /\ UNCHANGED <<queue, processing, workerInbox, workerOutbox, promises, settled,
                 loads, varsCrop, varsCamera, varsRedo, varsParse>>

\* the state saveToUndoStack(currentMapData) pushes
UndoState(m) ==
  [data |-> m.data, width |-> m.width, height |-> m.height, rotation |-> rotation]

\* handleSaveCrop: cropToolRef.current is the mounted <CropTool>, null when
\* none is rendered (outside of crop mode)
HandleSaveCrop_exitsAnyway ==
  /\ mapData # <<>>
  /\ LET mounted == isCropMode
         cropped == IF mounted THEN getCropRect(EditorCropArgs) ELSE NullResult
     IN IF mounted /\ ~cropped.isNull
          THEN /\ Len(undoStack) < MaxUndo
               /\ undoStack' = Append(undoStack, UndoState(mapData[1]))
               /\ canUndo' = TRUE
               /\ mapData' = <<[data |-> cropped.data, width |-> cropped.width,
                                height |-> cropped.height]>>
               /\ handleRotationChange(0)
               /\ isCropMode' = FALSE
               /\ isCropToolEnabled' = FALSE
               /\ activeTool' = "select"
               /\ start' = <<>>
               /\ end' = <<>>
               /\ lastEvent' = [op |-> "saveCrop", load |-> 0, changedMap |-> TRUE]
          ELSE /\ isCropMode' = FALSE
               /\ isCropToolEnabled' = FALSE
               /\ activeTool' = "select"
               /\ start' = <<>>
               /\ end' = <<>>
               /\ lastEvent' = [op |-> "saveCrop", load |-> 0, changedMap |-> FALSE]
               /\ UNCHANGED <<undoStack, canUndo, mapData, rotation>>
  /\ UNCHANGED isSelected
  /\ UNCHANGED <<queue, processing, workerInbox, workerOutbox, promises, settled,
                 loads, varsCrop, varsCamera, varsRedo, varsParse>>

HandleSaveCrop ==
  /\ mapData # <<>>
  /\ LET mounted == isCropMode
         cropped == IF mounted THEN getCropRect(EditorCropArgs) ELSE NullResult
     IN IF mounted /\ ~cropped.isNull
          THEN /\ Len(undoStack) < MaxUndo
               /\ undoStack' = Append(undoStack, UndoState(mapData[1]))
               /\ canUndo' = TRUE
               /\ mapData' = <<[data |-> cropped.data, width |-> cropped.width,
                                height |-> cropped.height]>>
               /\ handleRotationChange(0)
               /\ isCropMode' = FALSE
               /\ isCropToolEnabled' = FALSE
               /\ activeTool' = "select"
               /\ start' = <<>>
               /\ end' = <<>>
               /\ lastEvent' = [op |-> "saveCrop", load |-> 0, changedMap |-> TRUE]
          ELSE /\ lastEvent' = [op |-> "saveCrop", load |-> 0, changedMap |-> FALSE]
               /\ UNCHANGED <<undoStack, canUndo, mapData, rotation, isCropMode,
                              isCropToolEnabled, activeTool, start, end>>
  /\ UNCHANGED isSelected
  /\ UNCHANGED <<queue, processing, workerInbox, workerOutbox, promises, settled,
                 loads, varsCrop, varsCamera, varsRedo, varsParse>>

\* handleCancelCrop, from the Cancel button shown in crop mode
HandleCancelCrop ==
  /\ mapData # <<>>
  /\ isCropMode
  /\ isCropMode' = FALSE
  /\ isCropToolEnabled' = FALSE
  /\ activeTool' = "select"
  /\ start' = <<>>
  /\ end' = <<>>
  /\ lastEvent' = [op |-> "edit", load |-> 0, changedMap |-> FALSE]
  /\ UNCHANGED <<isSelected, rotation, undoStack, canUndo, mapData>>
  /\ UNCHANGED <<queue, processing, workerInbox, workerOutbox, promises, settled,
                 loads, varsCrop, varsCamera, varsRedo, varsParse>>

\* handleUndo, from the Undo button (disabled unless canUndo); a mounted crop
\* tool resets its rectangle when the restored map has another size
HandleUndo ==
  /\ mapData # <<>>
  /\ canUndo
  /\ IF Len(undoStack) > 0
       THEN LET previousState == undoStack[Len(undoStack)]
            IN /\ mapData' = <<[data |-> previousState.data, width |-> previousState.width,
                                height |-> previousState.height]>>
               /\ handleRotationChange(previousState.rotation)
               /\ undoStack' = SubSeq(undoStack, 1, Len(undoStack) - 1)
               /\ canUndo' = (Len(undoStack) > 1)
               /\ IF isCropMode /\ (previousState.width # mapData[1].width
                                    \/ previousState.height # mapData[1].height)
                    THEN ResetRect(previousState)
                    ELSE UNCHANGED <<start, end>>
               /\ lastEvent' = [op |-> "undo", load |-> 0, changedMap |-> TRUE]
       ELSE /\ lastEvent' = [op |-> "undo", load |-> 0, changedMap |-> FALSE]
            /\ UNCHANGED <<mapData, rotation, undoStack, canUndo, start, end>>
  /\ UNCHANGED <<isSelected, isCropMode, isCropToolEnabled, activeTool>>
  /\ UNCHANGED <<queue, processing, workerInbox, workerOutbox, promises, settled,
                 loads, varsCrop, varsCamera, varsRedo, varsParse>>

\* the editor once the first load has put a map on display
EditorInit ==
  /\ InitLoader
  /\ mapData = <<EditorMap>>
  /\ InitEditor
  /\ InitCamera
  /\ InitRedo
  /\ InitCrop
  /\ InitParse

EditorNext ==
  \/ HandleMapClick
  \/ \E tool \in {"select", "crop", "rotate", "move"} : HandleToolChange(tool)
  \/ \E value \in SliderValues : HandleSlider(value)
  \/ \E degrees \in {-90, 90} : HandleQuickRotate(degrees)
  \/ \E down \in DownPoints, point \in MovePoints : PointerDrag(down, point)
  \/ HandleSaveCrop
  \/ HandleCancelCrop
  \/ HandleUndo

EditorSpec == EditorInit /\ [][EditorNext]_vars

(***************************************************************************)
(* Properties of the editor                                                *)
(***************************************************************************)
\* this step is a handleSaveCrop whose crop is rejected: no crop tool is
\* mounted, or getCropRect() returns null
SaveCropRejected ==
  /\ lastEvent'.op = "saveCrop"
  /\ (~isCropMode \/ getCropRect(EditorCropArgs).isNull)

\* C10: a rejected handleSaveCrop changes neither mapData, the undo stack,
\* canUndo, the rotation, the crop mode flags nor the active tool
C10_RejectedCropChangesNothing ==
  [][SaveCropRejected =>
       UNCHANGED <<mapData, undoStack, canUndo, rotation, isCropMode,
                   isCropToolEnabled, activeTool>>]_vars

\* handleSaveCrop has just been rejected for a rectangle without area, in
\* crop mode, on a rotated map that has an earlier crop to undo
C10_Witness ==
  /\ lastEvent.op = "saveCrop" /\ ~lastEvent.changedMap
  /\ isCropMode /\ isCropToolEnabled /\ activeTool = "crop"
  /\ start # <<>> /\ start = end
  /\ rotation = 90 /\ canUndo /\ Len(undoStack) = 1

\* C27: crop mode implies selection
C27_CropModeImpliesSelected == isCropMode => isSelected

\* C19: after every successful handleSaveCrop (the map was replaced by the
\* crop) the rotation is 0
C19_RotationZeroAfterCrop ==
  (lastEvent.op = "saveCrop" /\ lastEvent.changedMap) => rotation = 0

\* C20: while isCropMode is true no action of the UI other than the crop's
\* own Save (slider, angle input, quick-rotate, tool buttons, undo, map
\* click) changes the rotation
C20_NoRotationWhileCropping ==
  [][(isCropMode /\ lastEvent'.op # "saveCrop") => rotation' = rotation]_vars

(***************************************************************************)
(* The worker's conversion as a function: one decode request on drawn      *)
(* inputs                                                                  *)
(***************************************************************************)
\* samples of a width x height grid, all different: 10, 20, 30, ...
Ramp(n) == [i \in 1..n |-> 10 * i]

\* occupancy samples of a grid: -1, 0, 50, 100, 10, 99, ... by position
Occupancy(n) == [i \in 1..n |-> <<-1, 0, 50, 100, 10, 99, 30, 98, 1>>[((i - 1) % 9) + 1]]

\* the values one occupancy or cost sample takes in the model
SampleValues == (-3)..103

\* decode requests: one-sample maps of every value for the two occupancy
\* conversions, and grids of every size for all three conversions
DecodeMessages ==
  { Msg(st, 1, 1, <<v>>) : st \in {"rosMap", "liveCostmap"}, v \in SampleValues }
  \cup { Msg("pgmFile", w, h, Ramp(w * h)) : w \in 1..MaxDim, h \in 1..MaxDim }
  \cup { Msg("pgmFile", 1, 1, <<v>>) : v \in {0, 7, 255} }
  \cup { Msg(st, w, h, Occupancy(w * h)) :
           st \in {"rosMap", "liveCostmap"}, w \in 1..MaxDim, h \in 1..MaxDim }

\* a manager that was just given one decode request by process(message)
DecodeInit ==
  /\ \E msg \in DecodeMessages :
       LET m == process([queue |-> <<>>, processing |-> FALSE, inbox |-> <<>>,
                         promises |-> <<>>, settled |-> <<>>], msg, 0)
       IN /\ queue = m.queue
          /\ processing = m.processing
          /\ workerInbox = m.inbox
          /\ promises = m.promises
          /\ settled = m.settled
  /\ workerOutbox = <<>>
  /\ loads = <<>>
  /\ lastEvent = [op |-> "enqueued", load |-> 0, changedMap |-> FALSE]
  /\ mapData = <<>>
  /\ InitEditor
  /\ InitCamera
  /\ InitRedo
  /\ InitCrop
  /\ InitParse

DecodeNext ==
  \/ WorkerOnMessage
  \/ HandleMessage

DecodeSpec == DecodeInit /\ [][DecodeNext]_vars

(***************************************************************************)
(* Properties of the worker's conversion                                   *)
(***************************************************************************)
\* the worker has answered the request at the head of the manager's queue
Decoded == Len(workerOutbox) > 0 /\ Len(queue) > 0

\* the request that was answered, and the answer
Request == queue[1].message

Response == workerOutbox[1].data

\* C11: a grayscale request of width x height gives, at every pixel (x, y),
\* R = G = B = the input sample at (x, height - 1 - y) and A = 255
C11_GrayRowInverted ==
  (Decoded /\ Request.sourceType = "pgmFile") =>
    /\ Response.width = Request.width /\ Response.height = Request.height
    /\ \A x \in 0..(Request.width - 1), y \in 0..(Request.height - 1) :
         LET v == Request.data[(Request.height - 1 - y) * Request.width + x + 1]
         IN PixelOf(Response.data, Request.width, x, y)
              = [c \in 0..3 |-> IF c = 3 THEN 255 ELSE v]

\* the 2 x 2 grid [10, 20, 30, 40] was decoded to the rows (30, 40), (10, 20)
C11_Witness ==
  /\ Decoded /\ Request.sourceType = "pgmFile"
  /\ Request.width = 2 /\ Request.height = 2 /\ Request.data = <<10, 20, 30, 40>>
  /\ Response.data = <<30, 30, 30, 255, 40, 40, 40, 255, 10, 10, 10, 255, 20, 20, 20, 255>>

\* the gray value C12 states for an occupancy sample
RosGray(v) ==
  CASE v = -1 -> 235
    [] v = 0 -> 255
    [] v = 100 -> 0
    [] OTHER -> 255 - ((v * 255 + 50) \div 100)

\* C12: a rosMap request gives, at every pixel i with a sample v in -1..100,
\* A = 255 and R = G = B = g(v) of the sample at the same index i
C12_RosMapPixels ==
  (Decoded /\ Request.sourceType = "rosMap") =>
    \A i \in 1..(Request.width * Request.height) :
      LET v == Request.data[i]
      IN v \in (-1)..100 =>
           /\ Response.data[4 * i - 3] = RosGray(v)
           /\ Response.data[4 * i - 2] = RosGray(v)
           /\ Response.data[4 * i - 1] = RosGray(v)
           /\ Response.data[4 * i] = 255

\* the sample 50 was decoded to the gray 127
C12_Witness ==
  /\ Decoded /\ Request.sourceType = "rosMap"
  /\ Request.data = <<50>>
  /\ Response.data = <<127, 127, 127, 255>>

\* b is a byte nearest to n / 100
NearestByte(b, n) == b \in 0..255 /\ 100 * b - n \in (-50)..50

Magics == {<<CharP, 53>>, <<CharP, 50>>}

Separators == {<<LF>>, <<SP>>}

\* no comment, "#c\n", and a comment line that ends past the first 100 bytes
Comments == {<<>>, <<HASH, 99, LF>>, <<HASH>> \o [i \in 1..HeaderBytes |-> 99] \o <<LF>>}

\* "0", "1", "2", "255"
DimTokens == {<<48>>, <<49>>, <<50>>, <<50, 53, 53>>}

\* "255", "1023", "2"
MaxValTokens == {<<50, 53, 53>>, <<49, 48, 50, 51>>, <<50>>}

Payloads == {<<>>, <<10, 20, 30, 40>>, <<0, 1>>, <<7, 8, 255>>}

\* a file was fetched and is about to be parsed
ParseInit ==
  /\ InitLoader
  /\ mapData = <<>>
  /\ InitEditor
  /\ InitCamera
  /\ InitRedo
  /\ InitCrop
  /\ \E magic \in Magics, s1 \in Separators, c \in Comments, w \in DimTokens,
        s2 \in Separators, h \in DimTokens, s3 \in Separators, mv \in MaxValTokens,
        s4 \in Separators, payload \in Payloads :
       arrayBuffer = <<magic \o s1 \o c \o w \o s2 \o h \o s3 \o mv \o s4 \o payload>>
  /\ imageViewer = <<>>

\* new ImageViewer(arrayBuffer)
Construct ==
  /\ arrayBuffer # <<>>
  /\ imageViewer = <<>>
  /\ imageViewer' = <<ImageViewer(arrayBuffer[1])>>
  /\ UNCHANGED <<arrayBuffer, varsLoader, varsCrop, varsCamera, varsRedo, varsEditor>>

ParseNext == Construct

ParseSpec == ParseInit /\ [][ParseNext]_vars

(***************************************************************************)
(* Properties of the PGM parser                                            *)
(***************************************************************************)
\* the text of the first 100 bytes of the file
HeaderTextOf(buffer) == TextDecode(SubSeq(buffer, 1, Min(HeaderBytes, Len(buffer))))

\* the positions of text t where a "#" comment begun at p may end with a
\* white space character (the comment does not cross a line end)
CommentEnds(t, p) ==
  {q \in (p + 1)..Len(t) : /\ t[q] \in WhiteSpace
                            /\ \A k \in (p + 1)..(q - 1) : t[k] \notin LineTerminators}

\* the positions the pattern can stand at after "P5", white space and any
\* number of comments: the closure of from under "skip one comment"
RECURSIVE AfterComments(_, _)
AfterComments(t, from) ==
  LET more == from \cup {q + 1 : q \in UNION {CommentEnds(t, p) : p \in {r \in from : r <= Len(t) /\ t[r] = HASH}}}
  IN IF more = from THEN from ELSE AfterComments(t, more)

\* three unsigned integers separated by white space start at position p
ThreeIntegersAt(t, p) ==
  \E a \in p..Len(t) :
    /\ \A k \in p..a : t[k] \in Digits
    /\ \E b \in (a + 2)..Len(t) :
         /\ \A k \in (a + 1)..(b - 1) : t[k] \in WhiteSpace
         /\ \E c \in (b + 1)..Len(t) :
              /\ \A k \in b..(c - 1) : t[k] \in Digits
              /\ \E d \in (c + 1)..Len(t) :
                   /\ \A k \in c..(d - 1) : t[k] \in WhiteSpace
                   /\ t[d] \in Digits

\* the header pattern: the magic token P5, white space, optional # comment
\* lines, then three unsigned integers
HeaderPattern(t) ==
  /\ Len(t) >= 3 /\ t[1] = CharP /\ t[2] = 53
  /\ \E p \in AfterComments(t, {q \in 4..Len(t) : \A k \in 3..(q - 1) : t[k] \in WhiteSpace}) :
       ThreeIntegersAt(t, p)

\* the constructor has run and has not thrown
Parsed == imageViewer # <<>> /\ ~imageViewer[1].threw

\* C14: the constructor throws, and produces no width, height or samples,
\* exactly when the first 100 bytes do not match the header pattern; every
\* header that matches is accepted, width or height 0 included
C14_ThrowsIffNoHeader ==
  imageViewer # <<>> =>
    /\ imageViewer[1].threw <=> ~HeaderPattern(HeaderTextOf(arrayBuffer[1]))
    /\ imageViewer[1].threw =>
         (imageViewer[1].width = 0 /\ imageViewer[1].height = 0 /\ imageViewer[1].data = <<>>)

\* the file "P5 0 255\n255\n" with four payload bytes was accepted with
\* width 0 and height 255
C14_Witness ==
  /\ Parsed
  /\ arrayBuffer[1] = <<CharP, 53, SP, 48, SP, 50, 53, 53, LF, 50, 53, 53, LF, 10, 20, 30, 40>>
  /\ imageViewer[1].width = 0 /\ imageViewer[1].height = 255

\* C15: for every accepted header the payload start offset is the index of
\* the byte right after the one white space byte that follows the maxValue
\* token
C15_PayloadOffset ==
  Parsed => imageViewer[1].headerEnd = imageViewer[1].matchEnd + 1

\* C16: every successful parse returns width * height samples
C16_SampleCount ==
  Parsed => Len(imageViewer[1].data) = imageViewer[1].width * imageViewer[1].height

\* the little-endian 16-bit value of the i-th pair of payload bytes
Sample16(payload, i) == payload[2 * i - 1] + 256 * payload[2 * i]

\* C17: with maxValue >= 256 each sample is round(v / maxValue * 255) of the
\* 16-bit value v; with maxValue < 256 each payload byte is one sample
C17_SampleDecoding ==
  Parsed =>
    LET iv == imageViewer[1]
        payload == Slice(arrayBuffer[1], iv.headerEnd)
    IN IF iv.maxVal >= 256
         THEN iv.data = [i \in 1..(Len(payload) \div 2) |->
                           ClampedStore(MathRound(Sample16(payload, i) * 255, iv.maxVal), 1)]
         ELSE iv.data = payload

(***************************************************************************)
(* The loader with the camera safeguards (resetCameraToSafeState)          *)
(***************************************************************************)
\* croppedImages starts empty and nothing adds to it in this loader, so no
\* image can be picked up: draggingImageId stays null
draggingImageId == FALSE

\* what getCropRect() reads in this loader: rotation and backgroundColor are
\* passed to <CropTool>
CameraCropArgs ==
  [EditorCropArgs EXCEPT !.rotation = rotation]

\* resetCameraToSafeState as created by a render in which isCropMode had the
\* value cropMode; cameraRef and controlsRef are set while a map is displayed
resetCameraToSafeState(cropMode) == ~cropMode /\ ~draggingImageId

\* setTimeout(() => resetCameraToSafeState(), delay) in a render in which
\* isCropMode had the value cropMode
SetTimeout(cropMode, delay) ==
  /\ Len(timers) < MaxTimers
  /\ timers' = Append(timers, [cropMode |-> cropMode, delay |-> delay])

\* handleMapClickSafe: isCropMode does not change, no effect runs again
CameraMapClick ==
  /\ mapData # <<>>
  /\ enableRotate' = FALSE
  /\ isSelected' = ~isSelected
  /\ SetTimeout(isCropMode, 10)
  /\ UNCHANGED <<rotation, isCropMode, isCropToolEnabled, activeTool, undoStack,
                 canUndo, start, end>>
  /\ UNCHANGED <<varsLoader, varsCrop, varsParse, varsRedo>>

\* the Crop Map button, shown outside of crop mode; then the effect on
\* isCropMode: resetCameraToSafeState() of the new render, then
\* enableRotate = false
CameraEnterCrop ==
  /\ mapData # <<>>
  /\ ~isCropMode
  /\ isSelected
  /\ isCropMode' = TRUE
  /\ isCropToolEnabled' = TRUE
  /\ ResetRect(mapData[1])
  /\ enableRotate' = FALSE
  /\ UNCHANGED <<isSelected, rotation, activeTool, undoStack, canUndo, timers>>
  /\ UNCHANGED <<varsLoader, varsCrop, varsParse, varsRedo>>

\* handleSaveCrop, from the Save Crop button shown in crop mode; after a
\* crop the effect on isCropMode sets enableRotate = false
CameraSaveCrop ==
  /\ mapData # <<>>
  /\ isCropMode
  /\ LET cropped == getCropRect(CameraCropArgs)
     IN IF ~cropped.isNull
          THEN /\ mapData' = <<[data |-> cropped.data, width |-> cropped.width,
                                height |-> cropped.height]>>
               /\ handleRotationChange(0)
               /\ isCropMode' = FALSE
               /\ isCropToolEnabled' = FALSE
               /\ start' = <<>>
               /\ end' = <<>>
               /\ SetTimeout(isCropMode, 50)
               /\ enableRotate' = FALSE
          ELSE UNCHANGED <<mapData, rotation, isCropMode, isCropToolEnabled, start,
                           end, timers, enableRotate>>
  /\ UNCHANGED <<isSelected, activeTool, undoStack, canUndo>>
  /\ UNCHANGED <<queue, processing, workerInbox, workerOutbox, promises, settled,
                 loads, lastEvent, varsCrop, varsParse, varsRedo>>

\* handleCancelCrop, from the Cancel button shown in crop mode
CameraCancelCrop ==
  /\ mapData # <<>>
  /\ isCropMode
  /\ isCropMode' = FALSE
  /\ isCropToolEnabled' = FALSE
  /\ start' = <<>>
  /\ end' = <<>>
  /\ SetTimeout(isCropMode, 50)
  /\ enableRotate' = FALSE
  /\ UNCHANGED <<isSelected, rotation, activeTool, undoStack, canUndo>>
  /\ UNCHANGED <<varsLoader, varsCrop, varsParse, varsRedo>>

\* a pending timeout expires: none set before it with a delay as short is
\* still pending
TimerFires(i) ==
  /\ i \in 1..Len(timers)
  /\ \A j \in 1..(i - 1) : timers[j].delay > timers[i].delay
  /\ enableRotate' = resetCameraToSafeState(timers[i].cropMode)
  /\ timers' = [k \in 1..(Len(timers) - 1) |-> IF k < i THEN timers[k] ELSE timers[k + 1]]
  /\ UNCHANGED <<varsLoader, varsCrop, varsParse, varsEditor, varsRedo>>

\* the 100 ms monitor: the camera's rotation is held at 0 by the controls'
\* angle limits, so only the second test can act
MonitorTick ==
  /\ mapData # <<>>
  /\ enableRotate' = IF isCropMode \/ draggingImageId THEN FALSE ELSE enableRotate
  /\ UNCHANGED <<timers, varsLoader, varsCrop, varsParse, varsEditor, varsRedo>>

\* the loader once the first load has put a map on display
CameraInit == EditorInit

CameraNext ==
  \/ CameraMapClick
  \/ CameraEnterCrop
  \/ \E down \in DownPoints, point \in MovePoints : PointerDrag(down, point)
  \/ CameraSaveCrop
  \/ CameraCancelCrop
  \/ \E i \in 1..MaxTimers : TimerFires(i)
  \/ MonitorTick

CameraSpec == CameraInit /\ [][CameraNext]_vars

\* C21: in every reachable state of the loader controls.enableRotate is
\* false
C21_NeverEnableRotate == ~enableRotate

(***************************************************************************)
(* useUndoStack.ts : the undo/redo hook, called directly                   *)
(***************************************************************************)
\* the hook's state in the current render
Hook ==
  [undoStack |-> undoStack, redoStack |-> redoStack, canUndo |-> canUndo,
   canRedo |-> canRedo]

SetHook(h) ==
  /\ undoStack' = h.undoStack
  /\ redoStack' = h.redoStack
  /\ canUndo' = h.canUndo
  /\ canRedo' = h.canRedo

\* the MapData {data, width, height} of a MapState
MapOf(st) == [data |-> st.data, width |-> st.width, height |-> st.height]

\* saveToUndoStack(currentMapData, rotation); currentMapData <<>> is null
saveToUndoStack(h, currentMapData, rot) ==
  IF currentMapData # <<>>
    THEN LET newState == [data |-> currentMapData[1].data,
                          width |-> currentMapData[1].width,
                          height |-> currentMapData[1].height, rotation |-> rot]
         IN [undoStack |-> Append(h.undoStack, newState), canUndo |-> TRUE,
             redoStack |-> <<>>, canRedo |-> FALSE]
    ELSE h

\* handleUndo(onRotationChange): the hook after the call, the value returned
\* (<<>> is null) and the argument of the onRotationChange call, if any
handleUndo(h) ==
  IF Len(h.undoStack) > 1
    THEN LET currentState == h.undoStack[Len(h.undoStack)]
             previousState == h.undoStack[Len(h.undoStack) - 1]
         IN [hook |-> [undoStack |-> SubSeq(h.undoStack, 1, Len(h.undoStack) - 1),
                       redoStack |-> Append(h.redoStack, currentState),
                       canUndo |-> (Len(h.undoStack) > 2), canRedo |-> TRUE],
             returned |-> <<MapOf(previousState)>>,
             onRotationChange |-> <<previousState.rotation>>]
    ELSE [hook |-> h, returned |-> <<>>, onRotationChange |-> <<>>]

handleRedo_keepsRedoStack(h) ==
  IF Len(h.redoStack) > 0
    THEN LET nextState == h.redoStack[Len(h.redoStack)]
         IN [hook |-> [undoStack |-> Append(h.undoStack, nextState),
                       redoStack |-> h.redoStack,
                       canUndo |-> TRUE, canRedo |-> (Len(h.redoStack) > 1)],
             returned |-> <<MapOf(nextState)>>,
             onRotationChange |-> <<nextState.rotation>>]
    ELSE [hook |-> h, returned |-> <<>>, onRotationChange |-> <<>>]

\* handleRedo(onRotationChange)
handleRedo(h) ==
  IF Len(h.redoStack) > 0
    THEN LET nextState == h.redoStack[Len(h.redoStack)]
         IN [hook |-> [undoStack |-> Append(h.undoStack, nextState),
                       redoStack |-> SubSeq(h.redoStack, 1, Len(h.redoStack) - 1),
                       canUndo |-> TRUE, canRedo |-> (Len(h.redoStack) > 1)],
             returned |-> <<MapOf(nextState)>>,
             onRotationChange |-> <<nextState.rotation>>]
    ELSE [hook |-> h, returned |-> <<>>, onRotationChange |-> <<>>]

\* the onRotationChange callback of a call: useMapRotation.handleRotationChange
OnRotationChange(call) ==
  IF call # <<>> THEN handleRotationChange(call[1]) ELSE UNCHANGED rotation

\* the maps and rotations saveToUndoStack is called with
UndoMaps ==
  {<<>>,
   <<[data |-> <<10, 10, 10, 255>>, width |-> 1, height |-> 1]>>,
   <<[data |-> <<20, 20, 20, 255, 30, 30, 30, 255>>, width |-> 2, height |-> 1]>>}

UndoRotations == {0, 90}

\* what a call of the hook did: its name, the value it returned, the state
\* it took from the top of a stack, the two stacks before the call, and
\* whether the call before it was a successful handleUndo
HookEvent(name, r) ==
  [op |-> name, returned |-> r.returned,
   afterUndo |-> (lastEvent.op = "handleUndo" /\ lastEvent.returned # <<>>),
   removed |-> IF r.returned = <<>> THEN <<>>
               ELSE IF name = "handleUndo" THEN <<undoStack[Len(undoStack)]>>
               ELSE <<redoStack[Len(redoStack)]>>,
   before |-> [undoStack |-> undoStack, redoStack |-> redoStack]]

CallSaveToUndoStack(currentMapData, rot) ==
  /\ Len(undoStack) < MaxUndo
  /\ SetHook(saveToUndoStack(Hook, currentMapData, rot))
  /\ lastEvent' = HookEvent("saveToUndoStack", [returned |-> <<>>])
  /\ UNCHANGED <<isSelected, rotation, isCropMode, isCropToolEnabled, activeTool,
                 start, end, cropHistory>>
  /\ UNCHANGED <<queue, processing, workerInbox, workerOutbox, promises, settled,
                 loads, mapData, varsCrop, varsParse, varsCamera>>

CallHandleUndo ==
  /\ LET r == handleUndo(Hook)
     IN /\ SetHook(r.hook)
        /\ OnRotationChange(r.onRotationChange)
        /\ lastEvent' = HookEvent("handleUndo", r)
  /\ UNCHANGED <<isSelected, isCropMode, isCropToolEnabled, activeTool, start, end,
                 cropHistory>>
  /\ UNCHANGED <<queue, processing, workerInbox, workerOutbox, promises, settled,
                 loads, mapData, varsCrop, varsParse, varsCamera>>

CallHandleRedo ==
  /\ LET r == handleRedo(Hook)
     IN /\ SetHook(r.hook)
        /\ OnRotationChange(r.onRotationChange)
        /\ lastEvent' = HookEvent("handleRedo", r)
  /\ UNCHANGED <<isSelected, isCropMode, isCropToolEnabled, activeTool, start, end,
                 cropHistory>>
  /\ UNCHANGED <<queue, processing, workerInbox, workerOutbox, promises, settled,
                 loads, mapData, varsCrop, varsParse, varsCamera>>

\* the hook after the first render of a component whose map is selected or
\* not
UndoInit ==
  /\ InitLoader
  /\ mapData = <<>>
  /\ isSelected \in BOOLEAN
  /\ rotation = 0
  /\ isCropMode = FALSE
  /\ isCropToolEnabled = FALSE
  /\ activeTool = "select"
  /\ undoStack = <<>>
  /\ canUndo = FALSE
  /\ start = <<>>
  /\ end = <<>>
  /\ InitCamera
  /\ InitRedo
  /\ InitCrop
  /\ InitParse

UndoNext ==
  \/ \E currentMapData \in UndoMaps, rot \in UndoRotations :
       CallSaveToUndoStack(currentMapData, rot)
  \/ CallHandleUndo
  \/ CallHandleRedo

UndoSpec == UndoInit /\ [][UndoNext]_vars

\* C22: after any sequence of saveToUndoStack, handleUndo and handleRedo
\* calls, canUndo is true exactly when handleUndo would return a state
C22_CanUndoIffUndoReturns == canUndo <=> (handleUndo(Hook).returned # <<>>)

\* C24: a successful handleUndo immediately followed by handleRedo leaves
\* undoStack and redoStack as they were before the pair, and handleRedo
\* returns the state handleUndo took from the top of undoStack
C24_UndoThenRedoRestores ==
  [][(/\ lastEvent.op = "handleUndo" /\ lastEvent.returned # <<>>
      /\ lastEvent'.op = "handleRedo") =>
       /\ undoStack' = lastEvent.before.undoStack
       /\ redoStack' = lastEvent.before.redoStack
       /\ lastEvent'.returned = <<MapOf(lastEvent.removed[1])>>]_vars

\* handleRedo has just given back the state a handleUndo had taken from a
\* stack of two different states
C24_Witness ==
  /\ lastEvent.op = "handleRedo" /\ lastEvent.returned # <<>>
  /\ lastEvent.afterUndo
  /\ lastEvent.before.redoStack # <<>>
  /\ redoStack = <<>>
  /\ Len(undoStack) = 2 /\ undoStack[1] # undoStack[2]
  /\ lastEvent.removed = <<undoStack[2]>>

(***************************************************************************)
(* The loader built on useUndoStack: crop and undo                         *)
(***************************************************************************)
\* what getCropRect() reads in this loader: MapView hands the map, the
\* rotation and the crop tool's ref on to <CropTool>
MapViewCropArgs ==
  [EditorCropArgs EXCEPT !.rotation = rotation]

\* handleSaveCrop, from the Save Crop button shown in crop mode
OnSaveCrop ==
  /\ mapData # <<>>
  /\ isCropMode
  /\ LET cropped == getCropRect(MapViewCropArgs)
     IN IF ~cropped.isNull
          THEN /\ Len(undoStack) < MaxUndo
               /\ SetHook(saveToUndoStack(Hook, mapData, rotation))
               /\ mapData' = <<[data |-> cropped.data, width |-> cropped.width,
                                height |-> cropped.height]>>
               /\ handleRotationChange(0)
               /\ isCropMode' = FALSE
               /\ isCropToolEnabled' = FALSE
               /\ start' = <<>>
               /\ end' = <<>>
               /\ cropHistory' = Append(cropHistory, mapData[1])
               /\ lastEvent' = [op |-> "saveCrop", load |-> 0, changedMap |-> TRUE]
          ELSE /\ lastEvent' = [op |-> "saveCrop", load |-> 0, changedMap |-> FALSE]
               /\ UNCHANGED <<undoStack, canUndo, redoStack, canRedo, mapData,
                              rotation, isCropMode, isCropToolEnabled, start, end,
                              cropHistory>>
  /\ UNCHANGED <<isSelected, activeTool>>
  /\ UNCHANGED <<queue, processing, workerInbox, workerOutbox, promises, settled,
                 loads, varsCrop, varsParse, varsCamera>>

\* handleCancelCrop, from the Cancel button shown in crop mode
OnCancelCrop ==
  /\ mapData # <<>>
  /\ isCropMode
  /\ isCropMode' = FALSE
  /\ isCropToolEnabled' = FALSE
  /\ start' = <<>>
  /\ end' = <<>>
  /\ lastEvent' = [op |-> "edit", load |-> 0, changedMap |-> FALSE]
  /\ UNCHANGED <<isSelected, rotation, activeTool, undoStack, canUndo, mapData>>
  /\ UNCHANGED <<queue, processing, workerInbox, workerOutbox, promises, settled,
                 loads, varsCrop, varsParse, varsCamera, varsRedo>>

\* onUndo, from the toolbar's Undo button (disabled unless canUndo); a
\* mounted crop tool resets its rectangle when the restored map has another
\* size
OnUndo ==
  /\ mapData # <<>>
  /\ canUndo
  /\ LET r == handleUndo(Hook)
     IN /\ SetHook(r.hook)
        /\ OnRotationChange(r.onRotationChange)
        /\ IF r.returned # <<>>
             THEN /\ mapData' = r.returned
                  /\ IF isCropMode /\ (r.returned[1].width # mapData[1].width
                                       \/ r.returned[1].height # mapData[1].height)
                       THEN ResetRect(r.returned[1])
                       ELSE UNCHANGED <<start, end>>
             ELSE UNCHANGED <<mapData, start, end>>
        /\ lastEvent' = [op |-> "onUndo", load |-> 0, changedMap |-> (r.returned # <<>>)]
  /\ cropHistory' = SubSeq(cropHistory, 1, Len(cropHistory) - 1)
  /\ UNCHANGED <<isSelected, isCropMode, isCropToolEnabled, activeTool>>
  /\ UNCHANGED <<queue, processing, workerInbox, workerOutbox, promises, settled,
                 loads, varsCrop, varsParse, varsCamera>>

UndoLoaderNext ==
  \/ HandleMapClick
  \/ \E tool \in {"select", "crop", "rotate", "move"} : HandleToolChange(tool)
  \/ \E down \in DownPoints, point \in MovePoints : PointerDrag(down, point)
  \/ OnSaveCrop
  \/ OnCancelCrop
  \/ OnUndo

\* the loader once the first load has put a map on display
UndoLoaderSpec == EditorInit /\ [][UndoLoaderNext]_vars

AngleInputs == {<<>>} \cup {<<n>> : n \in (-181)..181}

\* handleAngleInput(e), the input being disabled unless isSelected
ControlsAngleInput(value) ==
  /\ isSelected /\ ~isCropMode
  /\ IF value = <<>>
       THEN handleRotationChange(0)
       ELSE IF value[1] >= -180 /\ value[1] <= 180
         THEN handleRotationChange(value[1])
         ELSE UNCHANGED rotation
  /\ UNCHANGED <<isSelected, isCropMode, isCropToolEnabled, activeTool, undoStack,
                 canUndo, start, end>>
  /\ UNCHANGED <<varsLoader, varsCrop, varsParse, varsCamera, varsRedo>>

\* the slider (min -180, max 180, step 1): onChange={onRotationChange}
ControlsSlider(value) ==
  /\ isSelected /\ ~isCropMode
  /\ handleRotationChange(value)
  /\ UNCHANGED <<isSelected, isCropMode, isCropToolEnabled, activeTool, undoStack,
                 canUndo, start, end>>
  /\ UNCHANGED <<varsLoader, varsCrop, varsParse, varsCamera, varsRedo>>

\* handleQuickRotate(degrees), from the -90 and +90 buttons, disabled unless
\* isSelected
ControlsQuickRotate(degrees) ==
  /\ isSelected /\ ~isCropMode
  /\ Abs(rotation + degrees) <= MaxTurn
  /\ handleRotationChange(rotation + degrees)
  /\ UNCHANGED <<isSelected, isCropMode, isCropToolEnabled, activeTool, undoStack,
                 canUndo, start, end>>
  /\ UNCHANGED <<varsLoader, varsCrop, varsParse, varsCamera, varsRedo>>

RotationNext ==
  \/ HandleMapClick
  \/ \E value \in AngleInputs : ControlsAngleInput(value)
  \/ \E value \in (-180)..180 : ControlsSlider(value)
  \/ \E degrees \in {-90, 90} : ControlsQuickRotate(degrees)

RotationSpec == EditorInit /\ [][RotationNext]_vars

\* C25: the map rotation stays within [-180, 180] whatever the rotation
\* controls (slider, angle input, quick-rotate) are used for, starting from
\* rotation 0
C25_RotationInRange == rotation >= -180 /\ rotation <= 180

====
